---- MODULE Spec2Model ----
(***************************************************************************)
(* Commit Gen: the generate -> normalize -> repair -> validate -> retry    *)
(* pipeline of src/src/core.ts, with the pure functions it is built from.  *)
(*                                                                         *)
(* Text is a sequence of one-character strings, so that trimming, line     *)
(* splitting, the header grammar and the subject clamp are computed on the *)
(* characters as the code computes them.  The backquote cannot be written  *)
(* inside a TLA+ string and is the token BQ.                               *)
(***************************************************************************)
EXTENDS Naturals, Integers, Sequences, FiniteSets, TLC

----------------------------------------------------------------------------
(* Characters *)

SP == " "
LF == "\n"
CR == "\r"
TAB == "\t"
BQ == "bq"

Lower ==
  {"a","b","c","d","e","f","g","h","i","j","k","l","m",
   "n","o","p","q","r","s","t","u","v","w","x","y","z"}
Digit == {"0","1","2","3","4","5","6","7","8","9"}

\* JavaScript's \s and String.prototype.trim, on the characters of the model
IsWs(c) == c \in {SP, TAB, LF, CR}
\* what the regular expression "." does not match
IsLineTerminator(c) == c \in {LF, CR}

\* x bound once to its value, then F applied to it
With(x, F(_)) == CHOOSE r \in {F(v) : v \in {x}} : TRUE

SetMin(S) == CHOOSE x \in S : \A y \in S : x <= y
SetMax(S) == CHOOSE x \in S : \A y \in S : x >= y
MinInt(a, b) == IF a <= b THEN a ELSE b
MaxInt(a, b) == IF a >= b THEN a ELSE b

----------------------------------------------------------------------------
(* String primitives *)

\* the characters of s at the positions idx, in order
AtPositions(s, idx) ==
  LET Pick(I) ==
        [k \in 1..Cardinality(I) |->
           s[CHOOSE i \in I : Cardinality({j \in I : j <= i}) = k]]
  IN With(idx, Pick)

Slice(s, from, to) == SubSeq(s, from + 1, MinInt(to, Len(s)))

TrimStart(s) ==
  LET F(keep) == IF keep = {} THEN <<>> ELSE SubSeq(s, SetMin(keep), Len(s))
  IN With({i \in 1..Len(s) : ~IsWs(s[i])}, F)

TrimEnd(s) ==
  LET F(keep) == IF keep = {} THEN <<>> ELSE SubSeq(s, 1, SetMax(keep))
  IN With({i \in 1..Len(s) : ~IsWs(s[i])}, F)

Trim(s) ==
  LET F(keep) == IF keep = {} THEN <<>> ELSE SubSeq(s, SetMin(keep), SetMax(keep))
  IN With({i \in 1..Len(s) : ~IsWs(s[i])}, F)

StartsWith(s, p) == Len(s) >= Len(p) /\ SubSeq(s, 1, Len(p)) = p
EndsWith(s, p) == Len(s) >= Len(p) /\ SubSeq(s, Len(s) - Len(p) + 1, Len(s)) = p

\* text.replace(/\r\n/g, '\n'): every CR that an LF follows is dropped
ReplaceCRLF(s) ==
  AtPositions(s, {i \in 1..Len(s) : ~(s[i] = CR /\ i < Len(s) /\ s[i + 1] = LF)})

\* subject.replace(/\s+/g, ' '): a run of white space becomes one space
CollapseWs(s) ==
  LET first == {i \in 1..Len(s) : ~IsWs(s[i]) \/ i = 1 \/ ~IsWs(s[i - 1])}
      kept == AtPositions(s, first)
  IN [k \in 1..Len(kept) |-> IF IsWs(kept[k]) THEN SP ELSE kept[k]]

\* message.split('\n'): lines[0] and lines.slice(1).join('\n')
FirstLine(s) ==
  LET F(nl) == IF nl = {} THEN s ELSE SubSeq(s, 1, SetMin(nl) - 1)
  IN With({i \in 1..Len(s) : s[i] = LF}, F)

RestLines(s) ==
  LET F(nl) == IF nl = {} THEN <<>> ELSE SubSeq(s, SetMin(nl) + 1, Len(s))
  IN With({i \in 1..Len(s) : s[i] = LF}, F)

----------------------------------------------------------------------------
(* parseCommitHeader *)

NoHeader ==
  [ok |-> FALSE, type |-> <<>>, hasScope |-> FALSE, scope |-> <<>>,
   breaking |-> FALSE, subject |-> <<>>]

\* a type token that may open with a digit or a hyphen
IsTypeToken_AnyFirst(s) ==
  /\ Len(s) >= 1
  /\ \A i \in 1..Len(s) : s[i] \in Lower \cup Digit \cup {"-"}

\* [a-z][a-z0-9-]*
IsTypeToken(s) ==
  /\ Len(s) >= 1
  /\ s[1] \in Lower
  /\ \A i \in 2..Len(s) : s[i] \in Lower \cup Digit \cup {"-"}

TypeChars == Lower \cup Digit \cup {"-"}

\* (!)?: (.+)$ on what follows the type or the closing parenthesis
TailMatch(t) ==
  LET bang == Len(t) >= 1 /\ t[1] = "!"
      F(r) ==
        LET ok == /\ Len(r) >= 3
                  /\ r[1] = ":"
                  /\ r[2] = SP
                  /\ \A i \in 3..Len(r) : ~IsLineTerminator(r[i])
        IN [ok |-> ok, breaking |-> bang,
            subject |-> IF ok THEN SubSeq(r, 3, Len(r)) ELSE <<>>]
  IN With(IF bang THEN Tail(t) ELSE t, F)

\* /^([a-z][a-z0-9-]*)\(([^)]+)\)(!)?: (.+)$/
\* p: the first "(", q: the first ")" after it
MatchWithScope(t) ==
  LET P(opens) == IF opens = {} THEN 0 ELSE SetMin(opens)
      p == With({i \in 1..Len(t) : t[i] = "("}, P)
      Q(closes) == IF closes = {} THEN 0 ELSE SetMin(closes)
      F(pq) ==
        LET G(tm) ==
              IF pq[1] >= 2 /\ pq[2] >= pq[1] + 2
                 /\ IsTypeToken(SubSeq(t, 1, pq[1] - 1)) /\ tm.ok
              THEN [ok |-> TRUE, type |-> SubSeq(t, 1, pq[1] - 1), hasScope |-> TRUE,
                    scope |-> SubSeq(t, pq[1] + 1, pq[2] - 1), breaking |-> tm.breaking,
                    subject |-> Trim(tm.subject)]
              ELSE NoHeader
        IN With(IF pq[2] = 0 THEN TailMatch(<<>>)
                ELSE TailMatch(SubSeq(t, pq[2] + 1, Len(t))), G)
      PQ(pp) == <<pp, IF pp = 0 THEN 0 ELSE With({i \in (pp + 1)..Len(t) : t[i] = ")"}, Q)>>
  IN With(With(p, PQ), F)

\* /^([a-z][a-z0-9-]*)(!)?: (.+)$/
\* p: the first character that cannot belong to the type
MatchNoScope(t) ==
  LET P(stops) == IF stops = {} THEN 0 ELSE SetMin(stops)
      F(p) ==
        LET G(tm) ==
              IF p >= 2 /\ IsTypeToken(SubSeq(t, 1, p - 1)) /\ tm.ok
              THEN [ok |-> TRUE, type |-> SubSeq(t, 1, p - 1), hasScope |-> FALSE,
                    scope |-> <<>>, breaking |-> tm.breaking,
                    subject |-> Trim(tm.subject)]
              ELSE NoHeader
        IN With(IF p = 0 THEN TailMatch(<<>>) ELSE TailMatch(SubSeq(t, p, Len(t))), G)
  IN With(With({i \in 1..Len(t) : t[i] \notin TypeChars}, P), F)

parseCommitHeader(line) ==
  LET F(trimmed) ==
        LET G(mWithScope) == IF mWithScope.ok THEN mWithScope ELSE MatchNoScope(trimmed)
        IN With(MatchWithScope(trimmed), G)
  IN With(Trim(line), F)

\* JavaScript truthiness of parsed.scope (undefined and '' are falsy)
ScopeTruthy(parsed) == parsed.hasScope /\ parsed.scope # <<>>

----------------------------------------------------------------------------
(* validateCommitMessage *)

\* membership that ignores the case of letters
LowerCase(str) ==
  [i \in 1..Len(str) |->
     IF str[i] = "C" THEN "c" ELSE IF str[i] = "Z" THEN "z" ELSE IF str[i] = "F" THEN "f"
     ELSE str[i]]
Includes_IgnoreCase(arr, x) == \E i \in 1..Len(arr) : LowerCase(arr[i]) = LowerCase(x)

\* arr.includes(x)
Includes(arr, x) == \E i \in 1..Len(arr) : arr[i] = x

\* A reason is the template of the code's message with the values it
\* interpolates: `Scope "${arg}" ...`, `Subject is too long (${n} > ${max}).`
Reason(text, arg, n, max) == [text |-> text, arg |-> arg, n |-> n, max |-> max]
NoReason == Reason("", <<>>, 0, 0)

R_Header == Reason("Header is not a valid Conventional Commit header.", <<>>, 0, 0)
R_Type(type) == Reason("Type \"${type}\" is not in allowed types.", type, 0, 0)
R_ScopeMissing == Reason("Scope is required but missing.", <<>>, 0, 0)
R_Scope(scope) == Reason("Scope \"${scope}\" is not in allowed scopes.", scope, 0, 0)
R_Breaking == Reason("Breaking marker is not allowed by rules.", <<>>, 0, 0)
R_SubjectEmpty == Reason("Subject is empty.", <<>>, 0, 0)
R_SubjectLong(n, max) == Reason("Subject is too long (${n} > ${max}).", <<>>, n, max)

Ok == [ok |-> TRUE, reason |-> NoReason]
Failed(reason) == [ok |-> FALSE, reason |-> reason]

\* the rules with the breaking marker checked before the scope
validateCommitMessage_BreakingFirst(opts) ==
  LET Check(parsed) ==
        IF ~parsed.ok THEN Failed(R_Header)
        ELSE IF ~Includes(opts.allowedTypes, parsed.type) THEN Failed(R_Type(parsed.type))
        ELSE IF ~opts.rules.allowBreakingChange /\ parsed.breaking THEN Failed(R_Breaking)
        ELSE IF opts.rules.requireScope /\ ~ScopeTruthy(parsed) THEN Failed(R_ScopeMissing)
        ELSE IF (opts.rules.requireScope \/ ScopeTruthy(parsed))
                /\ ~Includes(opts.allowedScopes, parsed.scope)
             THEN Failed(R_Scope(parsed.scope))
        ELSE IF parsed.subject = <<>> THEN Failed(R_SubjectEmpty)
        ELSE IF Len(parsed.subject) > opts.rules.maxSubjectLength
             THEN Failed(R_SubjectLong(Len(parsed.subject), opts.rules.maxSubjectLength))
        ELSE Ok
      headerLine == Trim(FirstLine(ReplaceCRLF(opts.message)))
  IN With(parseCommitHeader(headerLine), Check)

validateCommitMessage(opts) ==
  LET Check(parsed) ==
        IF ~parsed.ok THEN Failed(R_Header)
        ELSE IF ~Includes(opts.allowedTypes, parsed.type) THEN Failed(R_Type(parsed.type))
        ELSE IF opts.rules.requireScope /\ ~ScopeTruthy(parsed) THEN Failed(R_ScopeMissing)
        ELSE IF opts.rules.requireScope /\ ~Includes(opts.allowedScopes, parsed.scope)
             THEN Failed(R_Scope(parsed.scope))
        ELSE IF ~opts.rules.requireScope /\ ScopeTruthy(parsed)
                /\ ~Includes(opts.allowedScopes, parsed.scope)
             THEN Failed(R_Scope(parsed.scope))
        ELSE IF ~opts.rules.allowBreakingChange /\ parsed.breaking THEN Failed(R_Breaking)
        ELSE IF parsed.subject = <<>> THEN Failed(R_SubjectEmpty)
        ELSE IF Len(parsed.subject) > opts.rules.maxSubjectLength
             THEN Failed(R_SubjectLong(Len(parsed.subject), opts.rules.maxSubjectLength))
        ELSE Ok
      headerLine == Trim(FirstLine(ReplaceCRLF(opts.message)))
  IN With(parseCommitHeader(headerLine), Check)

----------------------------------------------------------------------------
(* tryRepairSubjectLengthOnly, clampSubject, normalizeCommitMessageText *)

\* a cut that keeps one character too many
clampSubject_CutOneLate(subject, maxLen) ==
  LET F(s) ==
        IF s = <<>> THEN <<>>
        ELSE IF Len(s) <= maxLen THEN s
        ELSE TrimEnd(Slice(s, 0, maxLen + 1))
  IN With(Trim(CollapseWs(subject)), F)

\* a cut that drops only the last character of a subject that is too long
clampSubject_DropLast(subject, maxLen) ==
  LET F(s) ==
        IF s = <<>> THEN <<>>
        ELSE IF Len(s) <= maxLen THEN s
        ELSE TrimEnd(Slice(s, 0, Len(s) - 1))
  IN With(Trim(CollapseWs(subject)), F)

clampSubject(subject, maxLen) ==
  LET F(s) ==
        IF s = <<>> THEN <<>>
        ELSE IF Len(s) <= maxLen THEN s
        ELSE TrimEnd(Slice(s, 0, maxLen))
  IN With(Trim(CollapseWs(subject)), F)

\* the breaking marker written before the scope
FormatHeader_BangFirst(parsed, subject) ==
  parsed.type
    \o (IF parsed.breaking THEN <<"!">> ELSE <<>>)
    \o (IF parsed.hasScope /\ parsed.scope # <<>> THEN <<"(">> \o parsed.scope \o <<")">> ELSE <<>>)
    \o <<":", SP>> \o subject

\* `${type}${scopePart}${breakingPart}: ${subject}`
\* the breaking marker left out
FormatHeader_NoBang(parsed, subject) ==
  parsed.type
    \o (IF ScopeTruthy(parsed) THEN <<"(">> \o parsed.scope \o <<")">> ELSE <<>>)
    \o <<":", SP>> \o subject

FormatHeader(parsed, subject) ==
  parsed.type
    \o (IF ScopeTruthy(parsed) THEN <<"(">> \o parsed.scope \o <<")">> ELSE <<>>)
    \o (IF parsed.breaking THEN <<"!">> ELSE <<>>)
    \o <<":", SP>> \o subject

\* no repair at all
tryRepairSubjectLengthOnly_Skip(opts) == opts.message

tryRepairSubjectLengthOnly(opts) ==
  LET Rebuild(parsed) ==
        LET safeSubject == clampSubject(parsed.subject, opts.rules.maxSubjectLength)
            newHeader == FormatHeader(parsed, safeSubject)
            Attach(rest) ==
              IF rest # <<>> THEN TrimEnd(newHeader \o <<LF>> \o rest) ELSE newHeader
        IN IF ~parsed.ok THEN opts.message
           ELSE IF Len(parsed.subject) <= opts.rules.maxSubjectLength THEN opts.message
           ELSE With(TrimEnd(RestLines(opts.message)), Attach)
      headerLine == Trim(FirstLine(opts.message))
  IN IF validateCommitMessage(opts).ok THEN opts.message
     ELSE With(parseCommitHeader(headerLine), Rebuild)

Fence == <<BQ, BQ, BQ>>

\* t.replace(/^```[\s\S]*?\n/, ''): the opening fence up to the first line break
StripLeadingFence(t) ==
  LET F(nl) ==
        IF StartsWith(t, Fence) /\ nl # {} THEN SubSeq(t, SetMin(nl) + 1, Len(t)) ELSE t
  IN With({i \in 4..Len(t) : t[i] = LF}, F)

\* .replace(/\n```$/, '')
StripTrailingFence(t) ==
  IF EndsWith(t, <<LF>> \o Fence) THEN SubSeq(t, 1, Len(t) - 4) ELSE t

normalizeCommitMessageText(text) ==
  LET WithoutFences(t) ==
        LET Trailing(u) == Trim(StripTrailingFence(u))
        IN With(StripLeadingFence(t), Trailing)
  IN With(Trim(ReplaceCRLF(text)), WithoutFences)

----------------------------------------------------------------------------
(* Errors *)

\* An error value: its class, its message (a template and the values it
\* interpolates) and, for the client's errors, the HTTP status it carries
\* (0 when it carries none).  The backquotes of the code's messages are
\* left out of the templates.
\* The raw body of an HTTP response, as its JSON reading: whether it is
\* JSON, whether it has a content list, the list, and the output_text and
\* output of the other provider's schema
NoBody ==
  [present |-> FALSE, json |-> FALSE, content |-> FALSE, blocks |-> <<>>,
   hasOutputText |-> FALSE, outputText |-> <<>>, hasOutput |-> FALSE, output |-> <<>>]

Err(class, text, reason, statusCode) ==
  [class |-> class, text |-> text, reason |-> reason, statusCode |-> statusCode,
   responseBody |-> NoBody]
NoError == Err("", "", NoReason, 0)
UserFacingError(text) == Err("UserFacingError", text, NoReason, 0)
AnthropicError(text, statusCode) == Err("AnthropicError", text, NoReason, statusCode)

----------------------------------------------------------------------------
(* Configuration: loadCommitGenConfig, getCommitGenSettings *)

DEFAULT_TYPES ==
  << <<"f","e","a","t">>, <<"f","i","x">>, <<"c","h","o","r","e">>,
     <<"d","o","c","s">>, <<"r","e","f","a","c","t","o","r">>,
     <<"p","e","r","f">>, <<"t","e","s","t">>, <<"b","u","i","l","d">>,
     <<"c","i">>, <<"r","e","v","e","r","t">>, <<"s","t","y","l","e">> >>

DEFAULT_MAX_SUBJECT == 72
MIN_SUBJECT == 20
MAX_SUBJECT == 120
DEFAULT_MAX_DIFF == 12000
MIN_DIFF == 1000
MAX_DIFF == 200000

DEFAULT_RULES ==
  [maxSubjectLength |-> DEFAULT_MAX_SUBJECT, requireScope |-> TRUE,
   allowBreakingChange |-> TRUE, subjectCase |-> "any"]

\* A JavaScript number as configuration gives it: finite (an integer here)
\* or not (NaN, an infinity, or a value that is no number at all)
Num(n) == [finite |-> TRUE, val |-> n]
NotFinite == [finite |-> FALSE, val |-> 0]

clampInt(n, min, max) ==
  IF ~n.finite THEN min ELSE MaxInt(min, MinInt(max, n.val))

\* the first occurrence of every item, in order
uniq(items) ==
  AtPositions(items, {i \in 1..Len(items) : \A j \in 1..(i - 1) : items[j] # items[i]})

\* items.map((s) => s.trim()).filter(Boolean)
TrimAll(items) ==
  LET Filter(trimmed) == AtPositions(trimmed, {i \in 1..Len(trimmed) : trimmed[i] # <<>>})
  IN With([i \in 1..Len(items) |-> Trim(items[i])], Filter)

NoConfig ==
  [scopes |-> <<>>, types |-> <<>>, rules |-> DEFAULT_RULES, promptHints |-> <<>>]

\* The file .commit-gen.json as fs.readFile and JSON.parse give it:
\*   read    FALSE when the file cannot be read
\*   json    "invalid" (JSON.parse throws), "notObject", "object"
\*   scopesOk, typesOk, rulesOk, hintsOk   the shape tests of
\*           parseCommitGenConfigText on the fields that are present
\*   hasTypes, hasMax, hasRequireScope, hasAllowBreaking   field present
parseCommitGenConfigText(file) ==
  IF file.json = "invalid" THEN UserFacingError("Invalid JSON in ${configPath}: ${err}")
  ELSE IF file.json # "object" THEN UserFacingError("Config must be a JSON object: ${configPath}")
  ELSE IF ~file.scopesOk THEN UserFacingError("Config must include scopes: string[] (${configPath}).")
  ELSE IF file.hasTypes /\ ~file.typesOk
       THEN UserFacingError("If present, types must be string[] (${configPath}).")
  ELSE IF ~file.rulesOk THEN UserFacingError("If present, rules must be an object (${configPath}).")
  ELSE IF ~file.hintsOk THEN UserFacingError("If present, promptHints must be a string (${configPath}).")
  ELSE NoError

loadCommitGenConfig(file) ==
  LET perr == parseCommitGenConfigText(file)
      scopes == uniq(TrimAll(file.scopes))
      types == uniq(TrimAll(IF file.hasTypes THEN file.types ELSE DEFAULT_TYPES))
      maxRaw == IF file.hasMax THEN file.max ELSE Num(DEFAULT_RULES.maxSubjectLength)
      rules ==
        [maxSubjectLength |-> clampInt(maxRaw, MIN_SUBJECT, MAX_SUBJECT),
         requireScope |-> IF file.hasRequireScope THEN file.requireScope
                          ELSE DEFAULT_RULES.requireScope,
         allowBreakingChange |-> IF file.hasAllowBreaking THEN file.allowBreakingChange
                                 ELSE DEFAULT_RULES.allowBreakingChange,
         subjectCase |-> IF file.hasSubjectCase THEN file.subjectCase
                         ELSE DEFAULT_RULES.subjectCase]
  IN IF ~file.read
     THEN [err |-> UserFacingError("Missing repo config file: ${configPath}"), config |-> NoConfig]
     ELSE IF perr # NoError THEN [err |-> perr, config |-> NoConfig]
     ELSE IF Len(scopes) = 0
     THEN [err |-> UserFacingError(".commit-gen.json must include at least 1 scope in scopes (${configPath})."),
           config |-> NoConfig]
     ELSE [err |-> NoError,
           config |-> [scopes |-> scopes, types |-> types, rules |-> rules,
                       promptHints |-> Trim(file.promptHints)]]

NoSettings == [apiKey |-> <<>>, model |-> "", maxDiffChars |-> 0]

\* env: the editor settings and the process environment
getCommitGenSettings(env) ==
  LET apiKeyFromSettings == Trim(env.anthropicApiKey)
      apiKeyFromEnv == Trim(env.ANTHROPIC_API_KEY)
      apiKey == IF apiKeyFromSettings # <<>> THEN apiKeyFromSettings ELSE apiKeyFromEnv
  IN IF apiKey = <<>>
     THEN [err |-> UserFacingError("Missing Anthropic API key. Set commitGen.anthropicApiKey or env var ANTHROPIC_API_KEY."),
           settings |-> NoSettings]
     ELSE [err |-> NoError,
           settings |-> [apiKey |-> apiKey, model |-> "claude-3-5-sonnet-latest",
                         maxDiffChars |->
                           clampInt(IF env.hasMaxDiffChars THEN env.maxDiffChars
                                    ELSE Num(DEFAULT_MAX_DIFF), MIN_DIFF, MAX_DIFF)]]

----------------------------------------------------------------------------
(* Git context *)

TruncationMarker ==
  <<LF, LF, ".", ".", ".", SP, "d","i","f","f", SP,
    "t","r","u","n","c","a","t","e","d", SP, ".", ".", ".", LF, LF>>

\* half of the budget kept on either side of the marker
truncateMiddle_KeepHalf(text, maxChars) ==
  LET keep == maxChars \div 2
      head == Slice(text, 0, keep)
      tail == Slice(text, MaxInt(0, Len(text) - keep), Len(text))
  IN IF Len(text) <= maxChars THEN text ELSE head \o TruncationMarker \o tail

truncateMiddle(text, maxChars) ==
  LET keep == IF maxChars >= 60 THEN (maxChars - 60) \div 2 ELSE 0
      head == Slice(text, 0, keep)
      tail == Slice(text, MaxInt(0, Len(text) - keep), Len(text))
  IN IF Len(text) <= maxChars THEN text ELSE head \o TruncationMarker \o tail

NoGit == [diff |-> <<>>, statusSummary |-> <<>>, diffKind |-> ""]

Clean == <<"(","c","l","e","a","n",")">>

\* the staged diff preferred whenever its text is not the empty string
GitContextOf_NoTrim(status, stagedDiff, workingDiff, maxDiffChars) ==
  LET usingWorking == Len(stagedDiff) = 0
      diffToUse == IF usingWorking THEN workingDiff ELSE stagedDiff
      trimmedDiff == truncateMiddle(diffToUse, maxDiffChars)
      statusSummary == IF Trim(status) # <<>> THEN Trim(status) ELSE Clean
  IN [diff |-> trimmedDiff, statusSummary |-> statusSummary,
      diffKind |-> IF usingWorking THEN "working" ELSE "staged"]

\* the tail of getGitContext, once the diffs are known
GitContextOf(status, stagedDiff, workingDiff, maxDiffChars) ==
  LET usingWorking == Len(Trim(stagedDiff)) = 0
      diffToUse == IF usingWorking THEN workingDiff ELSE stagedDiff
      trimmedDiff == truncateMiddle(diffToUse, maxDiffChars)
      statusSummary == IF Trim(status) # <<>> THEN Trim(status) ELSE Clean
  IN [diff |-> trimmedDiff, statusSummary |-> statusSummary,
      diffKind |-> IF usingWorking THEN "working" ELSE "staged"]

----------------------------------------------------------------------------
(* Prompt Builder.  A prompt is the array of lines that the code joins    *)
(* with '\n'; a line is a literal with the text, number or validation    *)
(* reason it interpolates.                                                 *)

Line(lit, txt, num) == [lit |-> lit, txt |-> txt, num |-> num, reason |-> NoReason]
Lit(lit) == Line(lit, <<>>, 0)

\* items.map((t) => `- ${t}`).join('\n'): one line for an empty list
BulletList(items) ==
  IF Len(items) = 0 THEN <<Lit("")>>
  ELSE [i \in 1..Len(items) |-> Line("- ${t}", items[i], 0)]

buildSystemPrompt(opts) ==
  LET scopeRule ==
        IF opts.rules.requireScope
        THEN Lit("Scope is REQUIRED. Header MUST be: type(scope)!?: subject")
        ELSE Lit("Scope is optional. Header can be: type(scope)!?: subject OR type!?: subject")
      breakingRule ==
        IF opts.rules.allowBreakingChange
        THEN Lit("Breaking marker \"!\" is allowed.")
        ELSE Lit("Breaking marker \"!\" is NOT allowed.")
      rulesLines ==
        << Lit("You MUST output a valid Conventional Commit message."),
           Lit("Output only the commit message text. No code fences, no extra commentary."),
           Lit(""),
           Lit("You MUST choose a type ONLY from this allowed list:") >>
        \o BulletList(opts.allowedTypes)
        \o << Lit(""), Lit("You MUST choose a scope ONLY from this allowed list:") >>
        \o BulletList(opts.allowedScopes)
        \o << Lit(""), scopeRule, breakingRule,
              Line("Subject MUST be imperative mood, concise, and <= ${max} characters.",
                   <<>>, opts.rules.maxSubjectLength) >>
      caseLines ==
        IF opts.rules.subjectCase # "any"
        THEN << Line("Subject casing: ${subjectCase}.", <<>>, 0) >>
        ELSE <<>>
      hintLines ==
        IF opts.promptHints # <<>>
        THEN << Lit(""), Lit("Additional project-specific instructions:"),
                Line("${promptHints}", Trim(opts.promptHints), 0) >>
        ELSE <<>>
  IN rulesLines \o caseLines \o hintLines

buildUserPrompt(opts) ==
  LET changesLabel ==
        IF opts.diffKind = "staged"
        THEN "Generate a commit message for these staged changes."
        ELSE "Generate a commit message for these current working tree changes (nothing staged)."
      diffLabel == IF opts.diffKind = "staged" THEN "Staged diff:" ELSE "Working tree diff:"
  IN << Lit(changesLabel), Lit(""), Lit("Git status (porcelain):"),
        Line("${status}", opts.status, 0), Lit(""), Lit(diffLabel),
        Line("${diff}", opts.diff, 0) >>

\* the retry prompts of generateWithValidationAndRetry
ReasonLine(reason) ==
  [lit |-> "Validation error: ${reason}", txt |-> <<>>, num |-> 0, reason |-> reason]

RetrySystem(baseSystem, reason) ==
  baseSystem \o << Lit(""), Lit("Your previous output failed validation."),
                   ReasonLine(reason),
                   Lit("Rewrite the commit message so it passes all constraints.") >>

RetryUser(baseUser, previous) ==
  baseUser \o << Lit(""), Lit("Previous output (for correction):"),
                 Line("${firstNormalized}", previous, 0) >>

----------------------------------------------------------------------------
(* Text-generation client: anthropicGenerateText, callAnthropicOrThrow *)

MAX_TOKENS == 450

Request(settings, system, userText) ==
  [apiKey |-> settings.apiKey, model |-> settings.model, system |-> system,
   userText |-> userText, maxTokens |-> MAX_TOKENS]

\* An HTTP exchange as the client sees it:
\*   net      FALSE when the request itself fails (req.on('error'))
\*   status   the status code
\*   json     FALSE when the body is no JSON
\*   blocks   the content list of the body: [type, text] records
\*   content  FALSE when the body has no content list
\*   hasOutputText, outputText, hasOutput, output: the fields output_text and
\*   output (a list of items, each with a type and a content list of blocks)
\*   of the other provider's body
HttpResponse(net, status, json, blocks) ==
  [net |-> net, status |-> status, json |-> json, content |-> TRUE, blocks |-> blocks,
   hasOutputText |-> FALSE, outputText |-> <<>>, hasOutput |-> FALSE, output |-> <<>>]

\* responseBody: text
Body(resp) ==
  [present |-> TRUE, json |-> resp.json, content |-> resp.content, blocks |-> resp.blocks,
   hasOutputText |-> resp.hasOutputText, outputText |-> resp.outputText,
   hasOutput |-> resp.hasOutput, output |-> resp.output]

\* new AnthropicError(message, { statusCode, responseBody })
AnthropicFailure(text, statusCode, resp) ==
  [err |-> [AnthropicError(text, statusCode) EXCEPT !.responseBody = Body(resp)],
   text |-> <<>>]

\* parsed.content.filter(...) on a body without content
NoContentTypeError ==
  Err("TypeError", "Cannot read properties of undefined (reading 'filter')", NoReason, 0)

TextBlock(text) == [type |-> "text", text |-> text]

\* .filter((b) => b.type === 'text').map((b) => b.text).join('')
RECURSIVE JoinText(_)
JoinText(blocks) ==
  IF blocks = <<>> THEN <<>>
  ELSE (IF blocks[1].type = "text" THEN blocks[1].text ELSE <<>>) \o JoinText(Tail(blocks))

anthropicGenerateText(resp) ==
  LET text == Trim(JoinText(resp.blocks))
  IN IF ~resp.net
     THEN [err |-> AnthropicError("Anthropic API request failed: ${err}", 0), text |-> <<>>]
     ELSE IF resp.status < 200 \/ resp.status >= 300
     THEN AnthropicFailure("Anthropic API request failed (${statusCode}).", resp.status, resp)
     ELSE IF ~resp.json
     THEN AnthropicFailure("Anthropic API returned non-JSON response.", 0, resp)
     ELSE IF ~resp.content
     THEN [err |-> NoContentTypeError, text |-> <<>>]
     ELSE IF text = <<>>
     THEN AnthropicFailure("Anthropic API returned empty content.", 0, resp)
     ELSE [err |-> NoError, text |-> text]

\* every failure that carries a status code translated to the key-rejected error
callAnthropicOrThrow_AnyStatus(resp) ==
  LET r == anthropicGenerateText(resp)
  IN IF r.err.class = "AnthropicError" /\ r.err.statusCode # 0
     THEN [err |-> UserFacingError("Anthropic API key was rejected (401). Check commitGen.anthropicApiKey or ANTHROPIC_API_KEY."),
           text |-> <<>>]
     ELSE r

callAnthropicOrThrow(resp) ==
  LET r == anthropicGenerateText(resp)
  IN IF r.err.class = "AnthropicError" /\ r.err.statusCode = 401
     THEN [err |-> UserFacingError("Anthropic API key was rejected (401). Check commitGen.anthropicApiKey or ANTHROPIC_API_KEY."),
           text |-> <<>>]
     ELSE r

----------------------------------------------------------------------------
(* Text-generation client of the other provider: openaiGenerateText *)

OpenAIError(text, statusCode) == Err("OpenAIError", text, NoReason, statusCode)

\* new OpenAIError(message, { statusCode, responseBody })
OpenAIFailure(text, statusCode, resp) ==
  [err |-> [OpenAIError(text, statusCode) EXCEPT !.responseBody = Body(resp)],
   text |-> <<>>]

OutputTextBlock(text) == [type |-> "output_text", text |-> text]
\* an item of output: its type and its content list
OutputItem(type, content) == [type |-> type, content |-> content]

\* the chunks pushed for one list of blocks
RECURSIVE JoinOutputText(_)
JoinOutputText(blocks) ==
  IF blocks = <<>> THEN <<>>
  ELSE (IF blocks[1].type = "output_text" THEN blocks[1].text ELSE <<>>)
         \o JoinOutputText(Tail(blocks))

\* the loop over the items: a message gives the output_text blocks of its
\* content, any other item those of its nested lists (here its content)
RECURSIVE OutputChunks(_)
OutputChunks(output) ==
  IF output = <<>> THEN <<>>
  ELSE JoinOutputText(output[1].content) \o OutputChunks(Tail(output))

extractOutputTextFromOutputItems(hasOutput, output) ==
  IF ~hasOutput THEN <<>> ELSE Trim(OutputChunks(output))

openaiGenerateText(resp) ==
  LET extracted == extractOutputTextFromOutputItems(resp.hasOutput, resp.output)
  IN IF ~resp.net
     THEN [err |-> OpenAIError("OpenAI API request failed: ${err}", 0), text |-> <<>>]
     ELSE IF resp.status < 200 \/ resp.status >= 300
     THEN OpenAIFailure("OpenAI API request failed (${statusCode}).", resp.status, resp)
     ELSE IF ~resp.json
     THEN OpenAIFailure("OpenAI API returned non-JSON response.", 0, resp)
     ELSE IF resp.hasOutputText /\ Trim(resp.outputText) # <<>>
     THEN [err |-> NoError, text |-> Trim(resp.outputText)]
     ELSE IF extracted # <<>>
     THEN [err |-> NoError, text |-> extracted]
     ELSE OpenAIFailure("OpenAI API returned empty content.", 0, resp)

----------------------------------------------------------------------------
(* Message sink: presentCommitMessage, tryInsertViaGitExtension *)

NoSink == [written |-> FALSE, method |-> "", text |-> <<>>]

\* host: what the editor offers when the message is presented
\*   scm        "ok", "absent" or "throws": vscode.scm.inputBox and its setter
\*   git        "ok", "absent" or "throws": the input box of the Git extension
\*   clipboard  "ok" or "throws"
presentCommitMessage(message, host) ==
  IF host.scm = "ok"
  THEN [err |-> NoError, sink |-> [written |-> TRUE, method |-> "scm", text |-> message]]
  ELSE IF host.git = "ok"
  THEN [err |-> NoError, sink |-> [written |-> TRUE, method |-> "git", text |-> message]]
  ELSE IF host.clipboard = "ok"
  THEN [err |-> NoError, sink |-> [written |-> TRUE, method |-> "clipboard", text |-> message]]
  ELSE [err |-> Err("Error", "clipboard write failed", NoReason, 0), sink |-> NoSink]

----------------------------------------------------------------------------
(* renderTransientError, the diagnostics log *)

IsUserFacing(err) == err.class = "UserFacingError"

GenericMessage == UserFacingError("Unexpected error (see Output: Commit Gen).")

\* the message shown after "Failed: "
renderTransientError(err) ==
  IF IsUserFacing(err) THEN [text |-> err.text, reason |-> err.reason]
  ELSE [text |-> GenericMessage.text, reason |-> NoReason]

\* the lines renderTransientError appends to the output channel
LogOf(err, log) ==
  IF IsUserFacing(err) THEN log
  ELSE log \o << [text |-> "Commit Gen error", class |-> ""],
                 [text |-> err.text, class |-> err.class],
                 [text |-> "", class |-> ""] >>

----------------------------------------------------------------------------
(* Inputs of one command invocation *)

\* length of the run of letters that opens a generated subject, so that
\* subjects fall on both sides of the smallest subject limit (MIN_SUBJECT)
PadLen == 18

Pad(n) == [i \in 1..n |-> "a"]

T_fix == <<"f","i","x">>
T_foo == <<"f","o","o">>

File(read, json, scopesOk, scopes, hasTypes, types, hasMax, max, hasRequireScope, requireScope, hasAllowBreaking, allowBreakingChange) ==
  [read |-> read, json |-> json, scopesOk |-> scopesOk, scopes |-> scopes,
   hasTypes |-> hasTypes, typesOk |-> TRUE, types |-> types,
   rulesOk |-> TRUE, hasMax |-> hasMax, max |-> max,
   hasRequireScope |-> hasRequireScope, requireScope |-> requireScope,
   hasAllowBreaking |-> hasAllowBreaking, allowBreakingChange |-> allowBreakingChange,
   hasSubjectCase |-> FALSE, subjectCase |-> "any",
   hintsOk |-> TRUE, promptHints |-> <<>>]

PlainFile == File(TRUE, "object", TRUE, << <<"c">> >>, FALSE, <<>>, FALSE, Num(0),
                  FALSE, TRUE, FALSE, TRUE)

ConfigFiles ==
  { PlainFile,
    [PlainFile EXCEPT !.read = FALSE],
    [PlainFile EXCEPT !.json = "invalid"],
    [PlainFile EXCEPT !.json = "notObject"],
    [PlainFile EXCEPT !.scopesOk = FALSE],
    [PlainFile EXCEPT !.scopes = << <<SP>> >>],
    [PlainFile EXCEPT !.typesOk = FALSE, !.hasTypes = TRUE],
    [PlainFile EXCEPT !.rulesOk = FALSE],
    [PlainFile EXCEPT !.hintsOk = FALSE],
    [PlainFile EXCEPT !.hasMax = TRUE, !.max = Num(5)],
    [PlainFile EXCEPT !.hasMax = TRUE, !.max = NotFinite,
                      !.hasAllowBreaking = TRUE, !.allowBreakingChange = FALSE],
    [PlainFile EXCEPT !.hasMax = TRUE, !.max = Num(5),
                      !.scopes = << <<SP, "c">>, <<"c">>, <<"u","i">> >>,
                      !.hasTypes = TRUE, !.types = << T_fix, <<"d","o","c","s", SP>> >>,
                      !.hasRequireScope = TRUE, !.requireScope = FALSE,
                      !.hasAllowBreaking = TRUE, !.allowBreakingChange = FALSE,
                      !.hasSubjectCase = TRUE, !.subjectCase = "lower",
                      !.promptHints = <<SP, "h">>],
    [PlainFile EXCEPT !.hasMax = TRUE, !.max = Num(MIN_SUBJECT + 1),
                      !.hasRequireScope = TRUE, !.requireScope = FALSE],
    [PlainFile EXCEPT !.hasMax = TRUE, !.max = Num(500),
                      !.hasTypes = TRUE, !.types = <<>>] }

\* hasMaxDiffChars, maxDiffChars: the setting commitGen.maxDiffChars
Env(anthropicApiKey, envKey) ==
  [anthropicApiKey |-> anthropicApiKey, ANTHROPIC_API_KEY |-> envKey,
   hasMaxDiffChars |-> FALSE, maxDiffChars |-> Num(0)]

Envs ==
  { Env(<<>>, <<SP>>),
    Env(<<SP, "k">>, <<"e">>),
    [Env(<<>>, <<"k", SP>>) EXCEPT !.hasMaxDiffChars = TRUE, !.maxDiffChars = Num(5)] }

\* what one git command gives: its standard output, or a failure
GitOut(ok, enoent, stdout) == [ok |-> ok, enoent |-> enoent, stdout |-> stdout]
GitFailure == GitOut(FALSE, FALSE, <<>>)
GitRevParseOuts == {GitOut(TRUE, FALSE, <<"t">>), GitFailure, GitOut(FALSE, TRUE, <<>>)}
GitStatusOuts == {GitOut(TRUE, FALSE, <<>>), GitOut(TRUE, FALSE, <<SP, "M", LF>>), GitFailure}
GitStagedOuts == {GitOut(TRUE, FALSE, <<>>), GitOut(TRUE, FALSE, <<LF>>),
                  GitOut(TRUE, FALSE, <<"s", LF>>), GitFailure}
GitWorkingOuts == {GitOut(TRUE, FALSE, <<>>), GitOut(TRUE, FALSE, <<"w", LF>>), GitFailure}

\* headers the model may generate: type, scope, breaking marker
H_fix_c == T_fix \o <<"(","c",")">>

OtherHeads ==
  { T_fix,
    T_fix \o <<"(","c",")","!">>,
    T_foo \o <<"(","c",")">>,
    T_fix \o <<"(","z",")">>,
    <<"F","i","x","(","c",")">> }

\* subjects around the limit: at it, one over it, with a space where the
\* cut falls, with runs of white space that the clamp collapses
S_short == <<"a", SP, "b">>
S_over == Pad(PadLen) \o <<"a","a","a">>

Subjects ==
  { S_short,
    Pad(PadLen) \o <<"a","a">>,
    S_over,
    Pad(PadLen) \o <<"a",SP,"a">>,
    Pad(PadLen) \o <<SP,SP,"a">>,
    Pad(PadLen) \o <<SP,TAB,SP,"a">> }

Header(head, subject) == head \o <<":", SP>> \o subject

Candidates ==
  { Header(H_fix_c, sub) : sub \in Subjects }
  \cup { Header(h, sub) : h \in OtherHeads, sub \in {S_short, S_over} }
  \cup { Fence \o <<"t", CR, LF>> \o Header(H_fix_c, S_over) \o <<LF>> \o Fence \o <<LF>>,
         Header(H_fix_c, S_over) \o <<CR, LF, CR, LF, "b", SP, LF, LF>>,
         <<SP>> \o Header(T_foo, Pad(PadLen) \o <<"a",SP,"a">>) \o <<LF, "b">>,
         Fence \o <<LF>> \o Fence }

HttpResponses ==
  { HttpResponse(TRUE, 200, TRUE, <<TextBlock(c)>>) : c \in Candidates }
  \cup { HttpResponse(TRUE, 200, TRUE,
                      << TextBlock(T_fix), [type |-> "tool_use", text |-> <<"x">>],
                         TextBlock(<<"(","c",")",":",SP,"a">>) >>),
         HttpResponse(TRUE, 200, TRUE, <<TextBlock(<<SP, LF>>)>>),
         HttpResponse(TRUE, 200, TRUE, <<>>),
         [HttpResponse(TRUE, 200, TRUE, <<>>) EXCEPT !.content = FALSE],
         HttpResponse(TRUE, 200, FALSE, <<>>),
         HttpResponse(TRUE, 401, TRUE, <<>>),
         HttpResponse(TRUE, 500, FALSE, <<>>),
         HttpResponse(FALSE, 0, FALSE, <<>>) }

Hosts ==
  { [scm |-> "ok", git |-> "ok", clipboard |-> "ok"],
    [scm |-> "throws", git |-> "ok", clipboard |-> "ok"],
    [scm |-> "absent", git |-> "absent", clipboard |-> "ok"],
    [scm |-> "absent", git |-> "throws", clipboard |-> "throws"] }

----------------------------------------------------------------------------
(* State of one invocation of runGenerateCommitMessageCommand *)

VARIABLES
  pc,               \* where the invocation is suspended
  config,           \* resolvedConfig
  settings,         \* CommitGenSettings
  gitStatus,        \* stdout of git status, while the context is gathered
  gitStaged,        \* stdout of git diff --staged
  gitWorking,       \* stdout of git diff, '' when it was not run
  git,              \* GitContext
  baseSystem,       \* the prompts of the first call
  baseUser,
  requests,         \* the calls issued to the text-generation client, in order
  responses,        \* the HTTP exchanges the client has completed, in order
  firstNormalized,
  firstRepaired,
  v1,
  secondNormalized,
  secondRepaired,
  v2,
  finalMessage,     \* what generateWithValidationAndRetry returned
  sink,             \* the commit input, the Git extension input or the clipboard
  error,            \* the error the invocation's catch received
  progress,         \* the last message reported to the user
  outputChannel,    \* the diagnostics log
  fnIn,             \* inputs and results of the pure functions applied alone
  fnOut

cfgVars == <<config, settings>>
gitVars == <<gitStatus, gitStaged, gitWorking, git>>
genVars == <<baseSystem, baseUser, requests, responses, firstNormalized, firstRepaired, v1,
             secondNormalized, secondRepaired, v2, finalMessage>>
outVars == <<sink, error, progress, outputChannel>>
fnVars == <<fnIn, fnOut>>
vars == <<pc, cfgVars, gitVars, genVars, outVars, fnVars>>

NotValidated == [ok |-> FALSE, reason |-> NoReason]
NoMsg == [text |-> "", reason |-> NoReason]
NoProgress == [text |-> "", msg |-> NoMsg]
NoFnIn == [message |-> <<>>, allowedTypes |-> <<>>, allowedScopes |-> <<>>,
           rules |-> DEFAULT_RULES]
NoFnOut == [step |-> 0, validation |-> NotValidated, repaired |-> <<>>,
            revalidation |-> NotValidated, repairedTwice |-> <<>>]

InitCommand ==
  /\ config = NoConfig
  /\ settings = NoSettings
  /\ gitStatus = <<>>
  /\ gitStaged = <<>>
  /\ gitWorking = <<>>
  /\ git = NoGit
  /\ baseSystem = <<>>
  /\ baseUser = <<>>
  /\ requests = <<>>
  /\ responses = <<>>
  /\ firstNormalized = <<>>
  /\ firstRepaired = <<>>
  /\ v1 = NotValidated
  /\ secondNormalized = <<>>
  /\ secondRepaired = <<>>
  /\ v2 = NotValidated
  /\ finalMessage = <<>>
  /\ sink = NoSink
  /\ error = NoError
  /\ progress = NoProgress
  /\ outputChannel = <<>>

Init ==
  /\ pc = "idle"
  /\ InitCommand
  /\ fnIn = NoFnIn
  /\ fnOut = NoFnOut

\* the catch of runGenerateCommitMessageCommand
Fail(err) ==
  /\ pc' = "failed"
  /\ error' = err
  /\ progress' = [text |-> "Failed: ${msg}", msg |-> renderTransientError(err)]
  /\ outputChannel' = LogOf(err, outputChannel)
  /\ UNCHANGED sink

\* progress.report({ message })
Report(text) == progress' = [text |-> text, msg |-> NoMsg]

----------------------------------------------------------------------------
(* The steps of the invocation, one per suspension point *)

\* the command starts: getBestWorkspaceFolder, then the config file is read
Invoke(folder) ==
  /\ pc = "idle"
  /\ IF ~folder
     THEN Fail(UserFacingError("Open a folder/workspace first (Commit Gen needs a workspace root to find .commit-gen.json)."))
     ELSE /\ pc' = "readConfig"
          /\ Report("Reading config and changes...")
          /\ UNCHANGED <<sink, error, outputChannel>>
  /\ UNCHANGED <<cfgVars, gitVars, genVars, fnVars>>

\* fs.readFile has completed: loadCommitGenConfig, getCommitGenSettings,
\* and getGitContext up to its first git command
ConfigRead(file, env) ==
  /\ pc = "readConfig"
  /\ \E loaded \in {loadCommitGenConfig(file)} :
     \E got \in {getCommitGenSettings(env)} :
        IF loaded.err # NoError
        THEN Fail(loaded.err) /\ UNCHANGED cfgVars
        ELSE IF got.err # NoError
        THEN Fail(got.err) /\ UNCHANGED cfgVars
        ELSE /\ pc' = "gitRevParse"
             /\ config' = loaded.config
             /\ settings' = got.settings
             /\ UNCHANGED outVars
  /\ UNCHANGED <<gitVars, genVars, fnVars>>

GitFailed(command) == UserFacingError(command)

\* isGitRepo: git rev-parse --is-inside-work-tree has completed
GitRevParse(out) ==
  /\ pc = "gitRevParse"
  /\ IF out.ok
     THEN pc' = "gitStatus" /\ UNCHANGED outVars
     ELSE IF out.enoent
     THEN Fail(GitFailed("git rev-parse --is-inside-work-tree failed: ${msg}"))
     ELSE Fail(UserFacingError("This workspace is not a git repository (no .git)."))
  /\ UNCHANGED <<cfgVars, gitVars, genVars, fnVars>>

\* git status --porcelain=v1 has completed
GitStatus(out) ==
  /\ pc = "gitStatus"
  /\ IF out.ok
     THEN pc' = "gitStaged" /\ gitStatus' = out.stdout /\ UNCHANGED outVars
     ELSE Fail(GitFailed("git status --porcelain=v1 failed: ${msg}")) /\ UNCHANGED gitStatus
  /\ UNCHANGED <<cfgVars, gitStaged, gitWorking, git, genVars, fnVars>>

\* generateWithValidationAndRetry up to its first call of the client
StartGeneration(ctx) ==
  \E system \in {buildSystemPrompt([allowedTypes |-> config.types,
                                    allowedScopes |-> config.scopes,
                                    rules |-> config.rules,
                                    promptHints |-> config.promptHints])} :
  \E user \in {buildUserPrompt([status |-> ctx.statusSummary, diff |-> ctx.diff,
                                diffKind |-> ctx.diffKind])} :
     /\ baseSystem' = system
     /\ baseUser' = user
     /\ requests' = Append(requests, Request(settings, system, user))
     /\ UNCHANGED <<responses, firstNormalized, firstRepaired, v1, secondNormalized, secondRepaired,
                    v2, finalMessage>>

\* getGitContext has returned ctx: the no-changes test, then the generation
AfterGitContext(ctx) ==
  /\ git' = ctx
  /\ IF Trim(ctx.diff) = <<>>
     THEN /\ Fail(UserFacingError("No changes found to generate a commit message for."))
          /\ UNCHANGED genVars
     ELSE /\ pc' = "generate1"
          /\ Report("Generating commit message...")
          /\ StartGeneration(ctx)
          /\ UNCHANGED <<sink, error, outputChannel>>

\* git diff --staged --no-color has completed
GitStaged(out) ==
  /\ pc = "gitStaged"
  /\ IF ~out.ok
     THEN /\ Fail(GitFailed("git diff --staged --no-color failed: ${msg}"))
          /\ UNCHANGED <<gitStaged, git, genVars>>
     ELSE IF Len(Trim(out.stdout)) = 0
     THEN /\ pc' = "gitWorking"
          /\ gitStaged' = out.stdout
          /\ UNCHANGED <<git, genVars, outVars>>
     ELSE /\ gitStaged' = out.stdout
          /\ \E ctx \in {GitContextOf(gitStatus, out.stdout, <<>>, settings.maxDiffChars)} :
                AfterGitContext(ctx)
  /\ UNCHANGED <<cfgVars, gitStatus, gitWorking, fnVars>>

\* git diff --no-color has completed
GitWorking(out) ==
  /\ pc = "gitWorking"
  /\ IF ~out.ok
     THEN /\ Fail(GitFailed("git diff --no-color failed: ${msg}"))
          /\ UNCHANGED <<gitWorking, git, genVars>>
     ELSE /\ gitWorking' = out.stdout
          /\ \E ctx \in {GitContextOf(gitStatus, gitStaged, out.stdout, settings.maxDiffChars)} :
                AfterGitContext(ctx)
  /\ UNCHANGED <<cfgVars, gitStatus, gitStaged, fnVars>>

----------------------------------------------------------------------------
(* generateWithValidationAndRetry, from the completion of each call *)

ValidationOpts(message) ==
  [message |-> message, allowedTypes |-> config.types, allowedScopes |-> config.scopes,
   rules |-> config.rules]

\* the candidate returned as the model wrote it, without the repair
ReturnedMessage_Unrepaired(normalized, repaired) == normalized

\* what the orchestrator returns for a candidate that validates
ReturnedMessage(normalized, repaired) == repaired

\* the calls issued to the client and not yet completed
Inflight == Len(requests) - Len(responses)

\* the candidate shown to the model on the retry
PreviousOutput(normalized, repaired) == normalized

\* a retry taken whatever the first validation says
NeedsRetry_Always(first) == TRUE

\* the retry is taken when the first validation fails
NeedsRetry(first) == ~first.ok

\* the failure reporting the reason of the first attempt
FailureAfterRetry_First(first, second) ==
  Err("UserFacingError", "Generated message failed validation after retry: ${reason}",
      first.reason, 0)

\* throw new UserFacingError(`Generated message failed validation after retry: ${v2.reason}`)
FailureAfterRetry(first, second) ==
  Err("UserFacingError", "Generated message failed validation after retry: ${reason}",
      second.reason, 0)

\* the first call has completed
Respond1(resp) ==
  /\ pc = "generate1"
  /\ responses' = Append(responses, resp)
  /\ \E r \in {callAnthropicOrThrow(resp)} :
     \E normalized \in {normalizeCommitMessageText(r.text)} :
     \E repaired \in {tryRepairSubjectLengthOnly(ValidationOpts(normalized))} :
     \E v \in {validateCommitMessage(ValidationOpts(repaired))} :
        IF r.err # NoError
        THEN /\ Fail(r.err)
             /\ UNCHANGED <<requests, firstNormalized, firstRepaired, v1, finalMessage>>
        ELSE /\ firstNormalized' = normalized
             /\ firstRepaired' = repaired
             /\ v1' = v
             /\ IF ~NeedsRetry(v)
                THEN /\ finalMessage' = ReturnedMessage(normalized, repaired)
                     /\ pc' = "present"
                     /\ Report("Inserting...")
                     /\ UNCHANGED requests
                ELSE /\ requests' =
                          Append(requests,
                                 Request(settings, RetrySystem(baseSystem, v.reason),
                                         RetryUser(baseUser, PreviousOutput(normalized, repaired))))
                     /\ pc' = "generate2"
                     /\ UNCHANGED <<finalMessage, progress>>
             /\ UNCHANGED <<sink, error, outputChannel>>
  /\ UNCHANGED <<cfgVars, gitVars, baseSystem, baseUser, secondNormalized, secondRepaired,
                 v2, fnVars>>

\* the retry call has completed
Respond2(resp) ==
  /\ pc = "generate2"
  /\ responses' = Append(responses, resp)
  /\ \E r \in {callAnthropicOrThrow(resp)} :
     \E normalized \in {normalizeCommitMessageText(r.text)} :
     \E repaired \in {tryRepairSubjectLengthOnly(ValidationOpts(normalized))} :
     \E v \in {validateCommitMessage(ValidationOpts(repaired))} :
        IF r.err # NoError
        THEN /\ Fail(r.err)
             /\ UNCHANGED <<secondNormalized, secondRepaired, v2, finalMessage>>
        ELSE /\ secondNormalized' = normalized
             /\ secondRepaired' = repaired
             /\ v2' = v
             /\ IF v.ok
                THEN /\ finalMessage' = ReturnedMessage(normalized, repaired)
                     /\ pc' = "present"
                     /\ Report("Inserting...")
                     /\ UNCHANGED <<sink, error, outputChannel>>
                ELSE /\ Fail(FailureAfterRetry(v1, v))
                     /\ UNCHANGED finalMessage
  /\ UNCHANGED <<cfgVars, gitVars, baseSystem, baseUser, requests, firstNormalized,
                 firstRepaired, v1, fnVars>>

\* presentCommitMessage(finalMessage)
Present(host) ==
  /\ pc = "present"
  /\ \E r \in {presentCommitMessage(finalMessage, host)} :
        IF r.err # NoError
        THEN Fail(r.err)
        ELSE /\ sink' = r.sink
             /\ pc' = "done"
             /\ Report(IF r.sink.method = "clipboard"
                       THEN "Copied to clipboard (could not access commit input)."
                       ELSE "Inserted into commit message box.")
             /\ UNCHANGED <<error, outputChannel>>
  /\ UNCHANGED <<cfgVars, gitVars, genVars, fnVars>>

Next ==
  \/ \E folder \in BOOLEAN : Invoke(folder)
  \/ \E file \in ConfigFiles, env \in Envs : ConfigRead(file, env)
  \/ \E out \in GitRevParseOuts : GitRevParse(out)
  \/ \E out \in GitStatusOuts : GitStatus(out)
  \/ \E out \in GitStagedOuts : GitStaged(out)
  \/ \E out \in GitWorkingOuts : GitWorking(out)
  \/ \E resp \in HttpResponses : Respond1(resp)
  \/ \E resp \in HttpResponses : Respond2(resp)
  \/ \E host \in Hosts : Present(host)

Spec == Init /\ [][Next]_vars

----------------------------------------------------------------------------
(* The pure functions applied alone: validateCommitMessage and             *)
(* tryRepairSubjectLengthOnly on one message and one rule set              *)

\* longest run of characters that follows the opening letters of a subject
TailLen == 4

RECURSIVE SeqsUpTo(_, _)
SeqsUpTo(chars, n) ==
  IF n = 0 THEN {<<>>}
  ELSE LET shorter == SeqsUpTo(chars, n - 1)
       IN shorter \cup {Append(t, c) : t \in {u \in shorter : Len(u) = n - 1}, c \in chars}

FnSubjects ==
  {Pad(PadLen) \o t : t \in SeqsUpTo({"a", SP}, TailLen)}
  \cup {S_short, Pad(PadLen) \o <<SP, TAB, SP, "a">>, Pad(PadLen) \o <<"a", TAB, SP, "a">>,
        <<"a", SP, SP, SP>> \o Pad(PadLen)}

FnTypes == {T_fix, T_foo, <<"F","i","x">>, <<"f","-","1">>, <<>>}
FnScopeParts ==
  {<<>>, <<"(","c",")">>, <<"(","z",")">>, <<"(","C",")">>, <<"(",")">>, <<"(","c">>,
   <<"(",SP,")">>}
FnBangs == {<<>>, <<"!">>}
FnSeparators == {<<":", SP>>, <<":">>, <<SP, ":", SP>>}
FnBodies == {<<>>, <<LF, LF, "b", SP, LF>>, <<CR, LF, "b", CR, LF>>, <<CR, "b">>}

FnMessages ==
  { ty \o sc \o bg \o sep \o sub :
      ty \in FnTypes, sc \in FnScopeParts, bg \in FnBangs, sep \in FnSeparators,
      sub \in {S_short, S_over} }
  \cup { <<SP>> \o T_fix \o sc \o bg \o <<":", SP>> \o sub \o body :
           sc \in {<<>>, <<"(","c",")">>}, bg \in FnBangs, sub \in FnSubjects,
           body \in {<<>>, <<LF, LF, "b", SP, LF>>} }
  \cup { T_fix \o sc \o <<":", SP>> \o sub \o body :
           sc \in {<<"(","c",")">>, <<"(","z",")">>}, sub \in {S_short, S_over},
           body \in FnBodies }
  \cup { <<>>, <<SP, LF>>, <<LF>> \o Header(H_fix_c, S_short) }

FnRules ==
  { [maxSubjectLength |-> max, requireScope |-> req, allowBreakingChange |-> brk,
     subjectCase |-> "any"] :
      max \in {MIN_SUBJECT, MIN_SUBJECT + 1}, req \in BOOLEAN, brk \in BOOLEAN }

FnInputs ==
  { [message |-> m, allowedTypes |-> <<T_fix>>, allowedScopes |-> << <<"c">>, <<"u","i">> >>,
     rules |-> r] : m \in FnMessages, r \in FnRules }

InitFn ==
  /\ pc = "fn"
  /\ InitCommand
  /\ fnIn \in FnInputs
  /\ fnOut = NoFnOut

\* validateCommitMessage(fnIn)
ApplyValidate ==
  /\ pc = "fn"
  /\ fnOut.step = 0
  /\ fnOut' = [fnOut EXCEPT !.step = 1, !.validation = validateCommitMessage(fnIn)]
  /\ UNCHANGED <<pc, cfgVars, gitVars, genVars, outVars, fnIn>>

\* tryRepairSubjectLengthOnly(fnIn), and the validation of what it returns
ApplyRepair ==
  /\ pc = "fn"
  /\ fnOut.step = 1
  /\ \E repaired \in {tryRepairSubjectLengthOnly(fnIn)} :
       fnOut' = [fnOut EXCEPT !.step = 2, !.repaired = repaired,
                   !.revalidation = validateCommitMessage([fnIn EXCEPT !.message = repaired])]
  /\ UNCHANGED <<pc, cfgVars, gitVars, genVars, outVars, fnIn>>

\* tryRepairSubjectLengthOnly on its own result
ApplyRepairAgain ==
  /\ pc = "fn"
  /\ fnOut.step = 2
  /\ fnOut' = [fnOut EXCEPT !.step = 3,
                 !.repairedTwice =
                    tryRepairSubjectLengthOnly([fnIn EXCEPT !.message = fnOut.repaired])]
  /\ UNCHANGED <<pc, cfgVars, gitVars, genVars, outVars, fnIn>>

NextFn == ApplyValidate \/ ApplyRepair \/ ApplyRepairAgain

SpecFn == InitFn /\ [][NextFn]_vars

----------------------------------------------------------------------------
(* parseCommitHeader applied alone to one line, and the header written     *)
(* back from the parsed fields                                             *)

LineLeads == {<<>>, <<SP>>}
LineTypes == {T_fix, <<"f","-","1">>, <<"F","i","x">>, <<"1","a">>, <<>>}
LineScopeParts ==
  {<<>>, <<"(","c",")">>, <<"(","(","c",")">>, <<"(",")">>, <<"(","c">>, <<"(","c",")",")">>,
   <<"(",SP,")">>}
LineBangs == {<<>>, <<"!">>, <<"!","!">>}
LineSeparators == {<<":", SP>>, <<":">>, <<SP, ":", SP>>, <<":", TAB>>}
LineSubjects ==
  {<<"a">>, <<SP, "a", SP, "b">>, <<SP>>, <<>>, <<"a", CR, "b">>, <<"a", ":", SP, "b">>,
   <<"a", TAB>>}
LineTrails == {<<>>, <<SP>>}

ParseLines ==
  { lead \o ty \o sc \o bg \o sep \o sub \o trail :
      lead \in LineLeads, ty \in LineTypes, sc \in LineScopeParts, bg \in LineBangs,
      sep \in LineSeparators, sub \in LineSubjects, trail \in LineTrails }

NoParseOut == [step |-> 0, parsed |-> NoHeader, formatted |-> <<>>]

InitParse ==
  /\ pc = "parse"
  /\ InitCommand
  /\ fnIn \in {[line |-> l] : l \in ParseLines}
  /\ fnOut = NoParseOut

\* parseCommitHeader(fnIn.line)
ApplyParse ==
  /\ pc = "parse"
  /\ fnOut.step = 0
  /\ fnOut' = [fnOut EXCEPT !.step = 1, !.parsed = parseCommitHeader(fnIn.line)]
  /\ UNCHANGED <<pc, cfgVars, gitVars, genVars, outVars, fnIn>>

\* `${type}${scopePart}${breakingPart}: ${subject}` of the parsed fields
ApplyFormat ==
  /\ pc = "parse"
  /\ fnOut.step = 1
  /\ fnOut.parsed.ok
  /\ fnOut' = [fnOut EXCEPT !.step = 2,
                 !.formatted = FormatHeader(fnOut.parsed, fnOut.parsed.subject)]
  /\ UNCHANGED <<pc, cfgVars, gitVars, genVars, outVars, fnIn>>

NextParse == ApplyParse \/ ApplyFormat

SpecParse == InitParse /\ [][NextParse]_vars

----------------------------------------------------------------------------
(* The text-generation clients applied alone to one HTTP exchange          *)

ClientStatuses == {199, 200, 204, 299, 300, 401, 500}

\* content lists of the one provider
ContentLists ==
  { <<>>, <<TextBlock(<<"a">>)>>, <<TextBlock(<<SP>>)>>, <<TextBlock(<<SP, "a">>)>>,
    <<[type |-> "tool_use", text |-> <<"t">>]>>,
    <<TextBlock(<<"a">>), [type |-> "tool_use", text |-> <<"t">>], TextBlock(<<"b">>)>> }

\* output lists of the other provider
OutputLists ==
  { <<>>,
    <<OutputItem("message", <<OutputTextBlock(<<"a">>), OutputTextBlock(<<"b">>)>>)>>,
    <<OutputItem("reasoning", <<>>), OutputItem("message", <<OutputTextBlock(<<"a">>)>>),
      OutputItem("message", <<[type |-> "refusal", text |-> <<"r">>], OutputTextBlock(<<"b">>)>>)>>,
    <<OutputItem("message", <<[type |-> "refusal", text |-> <<"r">>]>>)>>,
    <<OutputItem("message", <<OutputTextBlock(<<SP>>)>>)>> }

AnthropicBodies ==
  { [HttpResponse(TRUE, 200, TRUE, blocks) EXCEPT !.content = TRUE] : blocks \in ContentLists }
    \cup { [HttpResponse(TRUE, 200, TRUE, <<>>) EXCEPT !.content = FALSE] }

OpenAIBodies ==
  { [HttpResponse(TRUE, 200, TRUE, <<>>) EXCEPT !.content = FALSE, !.hasOutput = TRUE,
                                                !.output = output] : output \in OutputLists }
    \cup { [HttpResponse(TRUE, 200, TRUE, <<>>) EXCEPT !.content = FALSE] }
    \cup { [HttpResponse(TRUE, 200, TRUE, <<>>) EXCEPT !.content = FALSE,
              !.hasOutputText = TRUE, !.outputText = text] : text \in {<<"a", "b", SP>>, <<SP>>} }
    \cup { [HttpResponse(TRUE, 200, TRUE, <<>>) EXCEPT !.content = FALSE,
              !.hasOutputText = TRUE, !.outputText = <<"a", "b">>, !.hasOutput = TRUE,
              !.output = <<OutputItem("message", <<OutputTextBlock(<<"a">>), OutputTextBlock(<<"b">>)>>)>>] }

ClientExchanges ==
  { [provider |-> "anthropic", resp |-> [body EXCEPT !.status = status, !.json = json]] :
      body \in AnthropicBodies, status \in ClientStatuses, json \in BOOLEAN }
  \cup
  { [provider |-> "openai", resp |-> [body EXCEPT !.status = status, !.json = json]] :
      body \in OpenAIBodies, status \in ClientStatuses, json \in BOOLEAN }
  \cup
  { [provider |-> p, resp |-> HttpResponse(FALSE, 0, FALSE, <<>>)] : p \in {"anthropic", "openai"} }

NoClientOut == [step |-> 0, result |-> [err |-> NoError, text |-> <<>>]]

InitClient ==
  /\ pc = "client"
  /\ InitCommand
  /\ fnIn \in ClientExchanges
  /\ fnOut = NoClientOut

\* anthropicGenerateText on the exchange
ApplyAnthropic ==
  /\ pc = "client"
  /\ fnOut.step = 0
  /\ fnIn.provider = "anthropic"
  /\ fnOut' = [fnOut EXCEPT !.step = 1, !.result = anthropicGenerateText(fnIn.resp)]
  /\ UNCHANGED <<pc, cfgVars, gitVars, genVars, outVars, fnIn>>

\* openaiGenerateText on the exchange
ApplyOpenAI ==
  /\ pc = "client"
  /\ fnOut.step = 0
  /\ fnIn.provider = "openai"
  /\ fnOut' = [fnOut EXCEPT !.step = 1, !.result = openaiGenerateText(fnIn.resp)]
  /\ UNCHANGED <<pc, cfgVars, gitVars, genVars, outVars, fnIn>>

NextClient == ApplyAnthropic \/ ApplyOpenAI

SpecClient == InitClient /\ [][NextClient]_vars

----------------------------------------------------------------------------
(* getCommitGenSettings and getGitContext applied alone to one setting of  *)
(* the budget and one pair of diffs                                        *)

DiffText(n) == [i \in 1..n |-> IF i % 7 = 0 THEN LF ELSE "d"]

DiffLengths ==
  {0, 1, MIN_DIFF - 1, MIN_DIFF, MIN_DIFF + 1, MIN_DIFF + 60, MIN_DIFF + 61, 2 * MIN_DIFF}

BudgetEnvs ==
  { Env(<<"k">>, <<>>) }
  \cup { [Env(<<"k">>, <<>>) EXCEPT !.hasMaxDiffChars = TRUE, !.maxDiffChars = n] :
           n \in {NotFinite, Num(0), Num(MIN_DIFF), Num(MIN_DIFF + 1), Num(MIN_DIFF + 60),
                  Num(MAX_DIFF + 1)} }

DiffInputs ==
  { [env |-> env, status |-> <<>>, stagedDiff |-> DiffText(n), workingDiff |-> <<>>] :
      env \in BudgetEnvs, n \in DiffLengths }
  \cup
  { [env |-> env, status |-> <<>>, stagedDiff |-> <<LF>>, workingDiff |-> DiffText(n)] :
      env \in BudgetEnvs, n \in DiffLengths }

NoDiffOut == [step |-> 0, settings |-> NoSettings, git |-> NoGit]

InitDiff ==
  /\ pc = "diff"
  /\ InitCommand
  /\ fnIn \in DiffInputs
  /\ fnOut = NoDiffOut

\* getCommitGenSettings()
ApplySettings ==
  /\ pc = "diff"
  /\ fnOut.step = 0
  /\ fnOut' = [fnOut EXCEPT !.step = 1, !.settings = getCommitGenSettings(fnIn.env).settings]
  /\ UNCHANGED <<pc, cfgVars, gitVars, genVars, outVars, fnIn>>

\* getGitContext(cwd, settings.maxDiffChars) once its git commands have answered
ApplyGitContext ==
  /\ pc = "diff"
  /\ fnOut.step = 1
  /\ fnOut' = [fnOut EXCEPT !.step = 2,
                 !.git = GitContextOf(fnIn.status, fnIn.stagedDiff, fnIn.workingDiff,
                                      fnOut.settings.maxDiffChars)]
  /\ UNCHANGED <<pc, cfgVars, gitVars, genVars, outVars, fnIn>>

NextDiff == ApplySettings \/ ApplyGitContext

SpecDiff == InitDiff /\ [][NextDiff]_vars

----------------------------------------------------------------------------
(* Two invocations of runGenerateCommitMessageCommand, interleaved at      *)
(* their suspension points.  The locals of an invocation are one record;   *)
(* what the module and the editor hold for all invocations is shared.      *)

Invocations == {1, 2}

\* the record that holds the locals of invocation i: its own
LocalsOf_ModuleLevel(i) == 1

LocalsOf(i) == i

NoLocals ==
  [pc |-> "idle", steps |-> 0, config |-> NoConfig, settings |-> NoSettings,
   gitStatus |-> <<>>, gitStaged |-> <<>>, git |-> NoGit,
   baseSystem |-> <<>>, baseUser |-> <<>>, requests |-> <<>>, responses |-> <<>>,
   candidates |-> <<>>, finalMessage |-> <<>>, sink |-> NoSink, error |-> NoError,
   progress |-> NoProgress]

\* the module-level outputChannel and the commit input box of the editor
NoShared == [outputChannel |-> <<>>, inputBox |-> <<>>]

\* the catch of runGenerateCommitMessageCommand
Throw(l, sh, err) ==
  [locals |-> [l EXCEPT !.pc = "failed", !.error = err,
                        !.progress = [text |-> "Failed: ${msg}",
                                      msg |-> renderTransientError(err)]],
   shared |-> [sh EXCEPT !.outputChannel = LogOf(err, @)]]

Proceed(l, sh) == [locals |-> l, shared |-> sh]

\* the no-changes test, then generateWithValidationAndRetry up to its first call
BeginGeneration(l, sh, ctx) ==
  LET Begin(system) ==
        LET user == buildUserPrompt([status |-> ctx.statusSummary, diff |-> ctx.diff,
                                     diffKind |-> ctx.diffKind])
        IN Proceed([l EXCEPT !.pc = "generate1", !.git = ctx,
                             !.progress = [text |-> "Generating commit message...", msg |-> NoMsg],
                             !.baseSystem = system, !.baseUser = user,
                             !.requests = Append(@, Request(l.settings, system, user))], sh)
  IN IF Trim(ctx.diff) = <<>>
     THEN Throw([l EXCEPT !.git = ctx], sh,
                UserFacingError("No changes found to generate a commit message for."))
     ELSE With(buildSystemPrompt([allowedTypes |-> l.config.types,
                                  allowedScopes |-> l.config.scopes,
                                  rules |-> l.config.rules,
                                  promptHints |-> l.config.promptHints]), Begin)

\* generateWithValidationAndRetry from the completion of the call k
AfterCall(l, sh, resp, k) ==
  LET Opts(message) ==
        [message |-> message, allowedTypes |-> l.config.types,
         allowedScopes |-> l.config.scopes, rules |-> l.config.rules]
      Judge(c) ==
        LET heard == [l EXCEPT !.responses = Append(@, resp), !.candidates = Append(@, c)]
            returned == [heard EXCEPT !.finalMessage = ReturnedMessage(c.normalized, c.repaired),
                                      !.pc = "present",
                                      !.progress = [text |-> "Inserting...", msg |-> NoMsg]]
        IN IF k = 1
           THEN IF ~NeedsRetry(c.validation)
                THEN Proceed(returned, sh)
                ELSE Proceed([heard EXCEPT
                                !.pc = "generate2",
                                !.requests =
                                   Append(@, Request(l.settings,
                                                     RetrySystem(l.baseSystem, c.validation.reason),
                                                     RetryUser(l.baseUser,
                                                               PreviousOutput(c.normalized, c.repaired))))],
                             sh)
           ELSE IF c.validation.ok
                THEN Proceed(returned, sh)
                ELSE Throw(heard, sh, FailureAfterRetry(l.candidates[1].validation, c.validation))
      Validate(repaired) ==
        [normalized |-> repaired.normalized, repaired |-> repaired.repaired,
         validation |-> validateCommitMessage(Opts(repaired.repaired))]
      Repair(normalized) ==
        With([normalized |-> normalized,
              repaired |-> tryRepairSubjectLengthOnly(Opts(normalized))], Validate)
      Answer(r) ==
        IF r.err # NoError
        THEN Throw([l EXCEPT !.responses = Append(@, resp)], sh, r.err)
        ELSE With(With(normalizeCommitMessageText(r.text), Repair), Judge)
  IN With(callAnthropicOrThrow(resp), Answer)

\* presentCommitMessage(finalMessage)
Deliver(l, sh, host) ==
  LET Written(r) ==
        IF r.err # NoError
        THEN Throw(l, sh, r.err)
        ELSE [locals |-> [l EXCEPT !.pc = "done", !.sink = r.sink,
                                   !.progress =
                                      [text |-> IF r.sink.method = "clipboard"
                                                THEN "Copied to clipboard (could not access commit input)."
                                                ELSE "Inserted into commit message box.",
                                       msg |-> NoMsg]],
              shared |-> IF r.sink.method = "clipboard" THEN sh
                         ELSE [sh EXCEPT !.inputBox = r.sink.text]]
  IN With(presentCommitMessage(l.finalMessage, host), Written)

\* the invocation runs from its suspension point l.pc to the next one, on the
\* answer that its collaborator gives there (s holds the answers of its run)
Resume(l, s, sh) ==
  IF l.pc = "idle"
  THEN IF ~s.folder
       THEN Throw(l, sh, UserFacingError("Open a folder/workspace first (Commit Gen needs a workspace root to find .commit-gen.json)."))
       ELSE Proceed([l EXCEPT !.pc = "readConfig",
                              !.progress = [text |-> "Reading config and changes...", msg |-> NoMsg]], sh)
  ELSE IF l.pc = "readConfig"
  THEN LET Loaded(loaded) ==
             LET got == getCommitGenSettings(s.env)
             IN IF loaded.err # NoError THEN Throw(l, sh, loaded.err)
                ELSE IF got.err # NoError THEN Throw(l, sh, got.err)
                ELSE Proceed([l EXCEPT !.pc = "gitRevParse", !.config = loaded.config,
                                       !.settings = got.settings], sh)
       IN With(loadCommitGenConfig(s.file), Loaded)
  ELSE IF l.pc = "gitRevParse"
  THEN IF s.revParse.ok THEN Proceed([l EXCEPT !.pc = "gitStatus"], sh)
       ELSE IF s.revParse.enoent
       THEN Throw(l, sh, GitFailed("git rev-parse --is-inside-work-tree failed: ${msg}"))
       ELSE Throw(l, sh, UserFacingError("This workspace is not a git repository (no .git)."))
  ELSE IF l.pc = "gitStatus"
  THEN IF s.status.ok
       THEN Proceed([l EXCEPT !.pc = "gitStaged", !.gitStatus = s.status.stdout], sh)
       ELSE Throw(l, sh, GitFailed("git status --porcelain=v1 failed: ${msg}"))
  ELSE IF l.pc = "gitStaged"
  THEN IF ~s.staged.ok
       THEN Throw(l, sh, GitFailed("git diff --staged --no-color failed: ${msg}"))
       ELSE IF Len(Trim(s.staged.stdout)) = 0
       THEN Proceed([l EXCEPT !.pc = "gitWorking", !.gitStaged = s.staged.stdout], sh)
       ELSE BeginGeneration([l EXCEPT !.gitStaged = s.staged.stdout], sh,
                            GitContextOf(l.gitStatus, s.staged.stdout, <<>>,
                                         l.settings.maxDiffChars))
  ELSE IF l.pc = "gitWorking"
  THEN IF ~s.working.ok
       THEN Throw(l, sh, GitFailed("git diff --no-color failed: ${msg}"))
       ELSE BeginGeneration(l, sh, GitContextOf(l.gitStatus, l.gitStaged, s.working.stdout,
                                                l.settings.maxDiffChars))
  ELSE IF l.pc = "generate1" THEN AfterCall(l, sh, s.resp1, 1)
  ELSE IF l.pc = "generate2" THEN AfterCall(l, sh, s.resp2, 2)
  ELSE Deliver(l, sh, s.host)

Running(l) == l.pc \notin {"done", "failed"}

\* Resume, and the count of the suspension points passed
Resumed(l, s, sh) ==
  LET Count(r) == [r EXCEPT !.locals.steps = l.steps + 1]
  IN With(Resume(l, s, sh), Count)

\* the states of the locals of one invocation that runs alone on the answers s
RECURSIVE RunAlone(_, _, _)
RunAlone(l, s, sh) ==
  LET Rest(r) == <<l>> \o RunAlone(r.locals, s, r.shared)
  IN IF ~Running(l) THEN <<l>> ELSE With(Resumed(l, s, sh), Rest)

\* the answers of the collaborators to one invocation
BaseScript ==
  [folder |-> TRUE, file |-> PlainFile, env |-> Env(<<"k">>, <<>>),
   revParse |-> GitOut(TRUE, FALSE, <<"t">>), status |-> GitOut(TRUE, FALSE, <<SP, "M", LF>>),
   staged |-> GitOut(TRUE, FALSE, <<"s", LF>>), working |-> GitOut(TRUE, FALSE, <<"w", LF>>),
   resp1 |-> HttpResponse(TRUE, 200, TRUE, <<TextBlock(Header(H_fix_c, S_short))>>),
   resp2 |-> HttpResponse(TRUE, 200, TRUE, <<TextBlock(Header(H_fix_c, S_short))>>),
   host |-> [scm |-> "ok", git |-> "ok", clipboard |-> "ok"]]

Scripts ==
  { BaseScript,
    [BaseScript EXCEPT !.folder = FALSE],
    [BaseScript EXCEPT !.file = [PlainFile EXCEPT !.read = FALSE]],
    [BaseScript EXCEPT !.staged = GitOut(TRUE, FALSE, <<LF>>),
                       !.resp1 = HttpResponse(TRUE, 401, TRUE, <<>>)],
    [BaseScript EXCEPT !.resp1 = HttpResponse(TRUE, 500, FALSE, <<>>)],
    [BaseScript EXCEPT !.resp1 = HttpResponse(TRUE, 200, TRUE, <<TextBlock(Header(T_foo, S_short))>>),
                       !.resp2 = HttpResponse(TRUE, 200, TRUE, <<TextBlock(Header(H_fix_c, S_over))>>),
                       !.host = [scm |-> "absent", git |-> "absent", clipboard |-> "ok"]],
    [BaseScript EXCEPT !.resp1 = HttpResponse(TRUE, 200, TRUE, <<TextBlock(Header(T_foo, S_short))>>),
                       !.resp2 = HttpResponse(TRUE, 200, TRUE, <<TextBlock(Header(T_foo, S_over))>>)],
    [BaseScript EXCEPT !.host = [scm |-> "absent", git |-> "throws", clipboard |-> "throws"]] }

InitTwo ==
  /\ pc = "two"
  /\ InitCommand
  /\ fnIn \in { [scripts |-> <<s1, s2>>,
                 alone |-> <<RunAlone(NoLocals, s1, NoShared), RunAlone(NoLocals, s2, NoShared)>>] :
                   s1 \in Scripts, s2 \in Scripts }
  /\ fnOut = [locals |-> [i \in Invocations |-> NoLocals], shared |-> NoShared,
              overlapped |-> FALSE]

\* both invocations have started and neither has ended
Overlap(locals) == \A i \in Invocations : locals[i].steps > 0 /\ Running(locals[i])

\* the event loop resumes invocation i at its suspension point
\* (overlapped records that the two invocations were under way together)
ResumeInvocation(i) ==
  /\ pc = "two"
  /\ Running(fnOut.locals[LocalsOf(i)])
  /\ \E r \in {Resumed(fnOut.locals[LocalsOf(i)], fnIn.scripts[i], fnOut.shared)} :
     \E locals \in {[fnOut.locals EXCEPT ![LocalsOf(i)] = r.locals]} :
       fnOut' = [locals |-> locals, shared |-> r.shared,
                 overlapped |-> fnOut.overlapped \/ Overlap(locals)]
  /\ UNCHANGED <<pc, cfgVars, gitVars, genVars, outVars, fnIn>>

NextTwo == \E i \in Invocations : ResumeInvocation(i)

SpecTwo == InitTwo /\ [][NextTwo]_vars

----------------------------------------------------------------------------
(* Properties of the invocation (under Spec) *)

\* what the client hands to the orchestrator for a completed exchange
Outcome(resp) == callAnthropicOrThrow(resp)

\* the k-th call has completed and has given the orchestrator a candidate,
\* which it has normalized (firstNormalized, secondNormalized), repaired
\* (firstRepaired, secondRepaired) and validated (v1, v2)
Delivered(k) == Len(responses) >= k /\ Outcome(responses[k]).err = NoError

\* The six rules of a commit message, each stated on its own for a parsed
\* header p and validation inputs o
HeaderOf(message) ==
  LET P(line) == parseCommitHeader(line)
  IN With(Trim(FirstLine(ReplaceCRLF(message))), P)
Members(arr) == {arr[i] : i \in 1..Len(arr)}
Scoped(p) == p.hasScope /\ p.scope # <<>>
RuleHolds(k, p, o) ==
  CASE k = 1 -> p.ok
    [] k = 2 -> p.type \in Members(o.allowedTypes)
    [] k = 3 -> IF o.rules.requireScope
                THEN Scoped(p) /\ p.scope \in Members(o.allowedScopes)
                ELSE Scoped(p) => p.scope \in Members(o.allowedScopes)
    [] k = 4 -> p.breaking => o.rules.allowBreakingChange
    [] k = 5 -> Len(p.subject) > 0
    [] k = 6 -> Len(p.subject) <= o.rules.maxSubjectLength
Violated(p, o) == {k \in 1..6 : ~RuleHolds(k, p, o)}
OtherwiseValid(p, o) == Violated(p, o) \subseteq {6}

\* C1: the client is called at most twice in an invocation, a call is issued
\* only when no other call is outstanding, and the second call is issued if
\* and only if the first candidate, normalized and repaired, fails validation.
C1_AtMostTwoSequentialCalls ==
  /\ Len(requests) <= 2
  /\ Inflight \in {0, 1}
  /\ (Inflight = 1) = (pc \in {"generate1", "generate2"})
  /\ (Len(requests) = 2) = (Delivered(1) /\ ~v1.ok)

C1_Witness ==
  /\ pc = "generate2"
  /\ Len(requests) = 2
  /\ Len(responses) = 1

\* C2: whenever the message sink has been written, the text written validates
\* under the invocation's rule set; an invocation that failed, whatever the
\* failure, has not written the sink.
C2_SinkHoldsValidatedMessage ==
  /\ sink.written =>
       \A p \in {HeaderOf(sink.text)} : Violated(p, ValidationOpts(sink.text)) = {}
  /\ (pc = "failed" \/ error # NoError) => ~sink.written
  /\ sink.written => pc = "done"

C2_Witness ==
  /\ sink.written
  /\ sink.method = "clipboard"
  /\ sink.text # firstNormalized
  /\ Len(requests) = 1

\* the section the retry appends to the system prompt, and the lines the
\* retry appends to the user prompt
AppendedTo(base, prompt) ==
  IF Len(prompt) >= Len(base) /\ SubSeq(prompt, 1, Len(base)) = base
  THEN SubSeq(prompt, Len(base) + 1, Len(prompt))
  ELSE <<>>
QuotesReason(section, reason) ==
  \E i \in 1..Len(section) : section[i].reason = reason /\ reason # NoReason
EndsWithCandidate(section, candidate) ==
  Len(section) >= 1 /\ section[Len(section)].txt = candidate

\* C3: when the first candidate fails validation, the retry system prompt is
\* the original system prompt followed by a section that quotes the first
\* validation reason, the retry user prompt is the original user prompt
\* followed by the candidate that failed validation, and a second candidate
\* that validates is what the orchestrator returns.
C3_RetryPromptsCarryRejectedCandidate ==
  /\ Len(requests) = 2 =>
       /\ QuotesReason(AppendedTo(baseSystem, requests[2].system), v1.reason)
       /\ EndsWithCandidate(AppendedTo(baseUser, requests[2].userText), firstRepaired)
  /\ (Delivered(2) /\ v2.ok) => finalMessage = secondRepaired

\* C4: when the second candidate, normalized and repaired, fails validation
\* too, the invocation ends in a user-facing failure that carries the reason
\* of the second validation, no message is returned or written, and no
\* further call is made.
C4_SecondFailureIsTerminal ==
  (Delivered(2) /\ ~v2.ok) =>
    /\ pc = "failed"
    /\ error.class = "UserFacingError"
    /\ error.text = "Generated message failed validation after retry: ${reason}"
    /\ error.reason = v2.reason
    /\ progress.msg.reason = v2.reason
    /\ v2.reason # NoReason
    /\ finalMessage = <<>>
    /\ ~sink.written
    /\ Len(requests) = 2

C4_Witness ==
  /\ pc = "failed"
  /\ Delivered(2)
  /\ ~v2.ok
  /\ v1.reason # v2.reason
  /\ error.reason = v2.reason

\* the first candidate has a header that parses, with a valid type and
\* scope and a subject longer than the limit
FirstCandidateOverLength ==
  /\ Delivered(1)
  /\ \A p \in {HeaderOf(firstNormalized)} :
     \A o \in {ValidationOpts(firstNormalized)} :
        /\ RuleHolds(1, p, o) /\ RuleHolds(2, p, o) /\ RuleHolds(3, p, o)
        /\ ~RuleHolds(6, p, o)
FirstCandidateBreakingAllowed ==
  RuleHolds(4, HeaderOf(firstNormalized), ValidationOpts(firstNormalized))
RepairedInOneCall ==
  /\ RuleHolds(6, HeaderOf(firstRepaired), ValidationOpts(firstRepaired))
  /\ v1.ok
  /\ finalMessage = firstRepaired
  /\ Len(requests) = 1
  /\ pc \in {"present", "done", "failed"}

\* C10 as stated: a first candidate with a parseable header, a valid type and
\* scope and a subject over the limit is repaired to a message that validates
\* and is returned after exactly one call.
C10_OverLengthRepairedWithoutRetry ==
  FirstCandidateOverLength => RepairedInOneCall

\* C10: a first candidate with a parseable header, a valid type and scope, no
\* breaking marker that the rules disallow, and a subject over the limit is
\* repaired to a message whose subject is within the limit and which
\* validates, and it is returned after exactly one call.
C10_OverLengthRepairedUnlessBreakingDisallowed ==
  (FirstCandidateOverLength /\ FirstCandidateBreakingAllowed) => RepairedInOneCall

C10_Witness ==
  /\ pc = "present"
  /\ FirstCandidateOverLength
  /\ Len(requests) = 1
  /\ finalMessage # firstNormalized
  /\ v1.ok

----------------------------------------------------------------------------
(* Properties of validateCommitMessage and tryRepairSubjectLengthOnly     *)
(* (under SpecFn)                                                          *)

FirstViolated(broken) == CHOOSE k \in broken : \A j \in broken : k <= j
ReasonOfRule(k, p, o) ==
  CASE k = 1 -> R_Header
    [] k = 2 -> R_Type(p.type)
    [] k = 3 -> IF Scoped(p) THEN R_Scope(p.scope) ELSE R_ScopeMissing
    [] k = 4 -> R_Breaking
    [] k = 5 -> R_SubjectEmpty
    [] k = 6 -> R_SubjectLong(Len(p.subject), o.rules.maxSubjectLength)

\* C5: validateCommitMessage returns Ok exactly when the six rules (header
\* parses, type allowed, scope rule, breaking marker allowed, subject not
\* empty, subject within the limit) all pass, and otherwise Failed with the
\* reason of the first rule violated in that order; a message whose type is
\* not allowed is Failed.
C5_FirstViolatedRuleIsReported ==
  fnOut.step >= 1 =>
    \A p \in {HeaderOf(fnIn.message)} :
    \A broken \in {Violated(p, fnIn)} :
      /\ fnOut.validation.ok = (broken = {})
      /\ broken = {} => fnOut.validation = Ok
      /\ broken # {} =>
           fnOut.validation = Failed(ReasonOfRule(FirstViolated(broken), p, fnIn))
      /\ p.type \notin Members(fnIn.allowedTypes) => ~fnOut.validation.ok

C5_Witness ==
  /\ fnOut.step >= 1
  /\ {2, 3, 4, 6} \subseteq Violated(HeaderOf(fnIn.message), fnIn)
  /\ fnOut.validation = Failed(R_Type(T_foo))

ScopeReasonTexts == {R_ScopeMissing.text, R_Scope(<<>>).text}
PassesScopeRule(v) == v.ok \/ v.reason.text \notin ScopeReasonTexts

\* C6: for a header that parses with an allowed type, when requireScope is
\* true the scope rule passes only with a scope that is an exact member of
\* allowedScopes; when requireScope is false an unscoped message passes it and
\* a scoped one passes it only if its scope is a member; a scope that is no
\* member fails with a reason that carries that scope.
C6_ScopeRule ==
  fnOut.step >= 1 =>
    \A p \in {HeaderOf(fnIn.message)} :
      (p.ok /\ p.type \in Members(fnIn.allowedTypes)) =>
        \A member \in {p.scope \in Members(fnIn.allowedScopes)} :
        \A passes \in {PassesScopeRule(fnOut.validation)} :
          /\ fnIn.rules.requireScope => (passes = (Scoped(p) /\ member))
          /\ (~fnIn.rules.requireScope /\ ~Scoped(p)) => passes
          /\ (~fnIn.rules.requireScope /\ Scoped(p)) => (passes = member)
          /\ (Scoped(p) /\ ~member) =>
               /\ fnOut.validation = Failed(R_Scope(p.scope))
               /\ fnOut.validation.reason.arg = p.scope

C6_Witness ==
  /\ fnOut.step >= 1
  /\ ~fnIn.rules.requireScope
  /\ fnOut.validation = Failed(R_Scope(<<"C">>))

\* the subject as the repair cuts it: runs of white space collapsed, trimmed
Collapsed(subject) == Trim(CollapseWs(subject))
\* the cut at max leaves white space at the end of what it keeps
CutLeavesWhitespace(subject, max) ==
  \/ Len(subject) > max /\ IsWs(subject[max])
  \/ \E c \in {Collapsed(subject)} : Len(c) > max /\ IsWs(c[max])

SubjectBoundary(p) ==
  \A max \in {fnIn.rules.maxSubjectLength} :
    /\ (fnOut.step >= 1 /\ Len(p.subject) = max) => fnOut.validation = Ok
    /\ (fnOut.step >= 1 /\ Len(p.subject) = max + 1) =>
         fnOut.validation = Failed(R_SubjectLong(max + 1, max))

\* C7 as stated: for an otherwise valid message a subject of exactly
\* maxSubjectLength characters passes and one of maxSubjectLength + 1 fails,
\* and the repair of the latter has a subject of exactly maxSubjectLength
\* characters, or fewer when the cut leaves trailing white space.
C7_RepairedSubjectHasExactlyMax ==
  \A p \in {HeaderOf(fnIn.message)} :
    OtherwiseValid(p, fnIn) =>
      /\ SubjectBoundary(p)
      /\ (fnOut.step >= 2 /\ Len(p.subject) = fnIn.rules.maxSubjectLength + 1) =>
           \A n \in {Len(HeaderOf(fnOut.repaired).subject)} :
             \/ n = fnIn.rules.maxSubjectLength
             \/ /\ n < fnIn.rules.maxSubjectLength
                /\ CutLeavesWhitespace(p.subject, fnIn.rules.maxSubjectLength)

\* C7: for an otherwise valid message a subject of exactly maxSubjectLength
\* characters passes and one of maxSubjectLength + 1 fails; the repair of an
\* over-length subject has at most maxSubjectLength characters, and fewer
\* exactly when collapsing its runs of white space leaves fewer, or the cut
\* leaves trailing white space.
C7_RepairedSubjectWithinMax ==
  \A p \in {HeaderOf(fnIn.message)} :
    OtherwiseValid(p, fnIn) =>
      /\ SubjectBoundary(p)
      /\ (fnOut.step >= 2 /\ Len(p.subject) > fnIn.rules.maxSubjectLength) =>
           \A n \in {Len(HeaderOf(fnOut.repaired).subject)} :
           \A c \in {Collapsed(p.subject)} :
           \A max \in {fnIn.rules.maxSubjectLength} :
             /\ n <= max
             /\ (n < max) = (Len(c) < max \/ (Len(c) > max /\ IsWs(c[max])))

C7_Witness ==
  /\ fnOut.step >= 2
  /\ \E p \in {HeaderOf(fnIn.message)} :
       /\ OtherwiseValid(p, fnIn)
       /\ Len(p.subject) = fnIn.rules.maxSubjectLength + 1
       /\ ~CutLeavesWhitespace(p.subject, fnIn.rules.maxSubjectLength)
       /\ Len(HeaderOf(fnOut.repaired).subject) < fnIn.rules.maxSubjectLength

\* C8: the repair returns its input unchanged when the input validates, when
\* its header does not parse, and when it violates a rule other than the
\* subject length; it rewrites only a message whose sole violation is the
\* subject length.
C8_RepairOnlyWhenLengthIsSoleViolation ==
  fnOut.step >= 2 =>
    (fnOut.repaired # fnIn.message => Violated(HeaderOf(fnIn.message), fnIn) = {6})

\* C9: the repair applied to its own result returns that result.
C9_RepairIsIdempotent ==
  fnOut.step = 3 => fnOut.repairedTwice = fnOut.repaired

C9_Witness ==
  /\ fnOut.step = 3
  /\ fnOut.repaired # fnIn.message
  /\ ~fnOut.revalidation.ok
  /\ fnOut.repairedTwice = fnOut.repaired

----------------------------------------------------------------------------
(* Properties of parseCommitHeader (under SpecParse) *)

\* The grammar type(scope)!?: subject | type!?: subject, stated on the
\* positions of a line: k ends the type, c is the closing parenthesis of the
\* scope (0 without scope), b tells whether "!" follows
GrammarType(s) ==
  /\ Len(s) >= 1
  /\ s[1] \in Lower
  /\ \A i \in 2..Len(s) : s[i] \in Lower \/ s[i] \in Digit \/ s[i] = "-"
GrammarScope(line, k, c) ==
  \/ c = 0
  \/ /\ c >= k + 3
     /\ c <= Len(line)
     /\ line[k + 1] = "("
     /\ line[c] = ")"
     /\ \A i \in (k + 2)..(c - 1) : line[i] # ")"
SubjectStart(k, c, b) == (IF c = 0 THEN k ELSE c) + (IF b THEN 1 ELSE 0) + 3
GrammarTail(line, k, c, b) ==
  LET f == SubjectStart(k, c, b)
  IN /\ Len(line) >= f
     /\ b => line[f - 3] = "!"
     /\ line[f - 2] = ":"
     /\ line[f - 1] = SP
     /\ \A i \in f..Len(line) : ~IsLineTerminator(line[i])
Decompositions(line) ==
  { [ok |-> TRUE, type |-> SubSeq(line, 1, d[1]), hasScope |-> d[2] # 0,
     scope |-> IF d[2] = 0 THEN <<>> ELSE SubSeq(line, d[1] + 2, d[2] - 1),
     breaking |-> d[3],
     subject |-> SubSeq(line, SubjectStart(d[1], d[2], d[3]), Len(line))] :
      d \in { e \in (1..Len(line)) \X (0..Len(line)) \X BOOLEAN :
                /\ GrammarType(SubSeq(line, 1, e[1]))
                /\ GrammarScope(line, e[1], e[2])
                /\ GrammarTail(line, e[1], e[2], e[3]) } }
TrimmedSubject(d) == [d EXCEPT !.subject = Trim(d.subject)]
ParsesAs(parsed, grammar) ==
  IF grammar = {} THEN parsed = NoHeader
  ELSE /\ Cardinality(grammar) = 1
       /\ \E d \in grammar : parsed = TrimmedSubject(d)

C12_RoundTrip ==
  fnOut.step = 2 => fnOut.formatted = fnIn.line

\* C12: a header line that the parser accepts is reproduced byte for byte by
\* writing its parsed fields back exactly when the line has no white space
\* around it and none between the ": " separator and the subject.
C12_RoundTripWithoutExtraWhitespace ==
  fnOut.step = 2 =>
    (fnOut.formatted = fnIn.line)
      = (/\ fnIn.line = Trim(fnIn.line)
         /\ \A d \in Decompositions(fnIn.line) : d.subject = Trim(d.subject))

C12_Witness ==
  /\ fnOut.step = 2
  /\ fnOut.parsed.hasScope
  /\ fnOut.parsed.breaking
  /\ fnOut.formatted = fnIn.line

----------------------------------------------------------------------------
(* Properties of the generation context (under Spec) *)

NoChangesError == UserFacingError("No changes found to generate a commit message for.")
HasText(diff) == \E i \in 1..Len(diff) : ~IsWs(diff[i])
WithinBudget(diff) == Len(diff) <= settings.maxDiffChars
ContextBuilt == git # NoGit

----------------------------------------------------------------------------
(* Properties of the failures of the client (under Spec) *)

KeyRejectedError ==
  UserFacingError("Anthropic API key was rejected (401). Check commitGen.anthropicApiKey or ANTHROPIC_API_KEY.")
\* the failure of the client for a completed exchange, NoError when it gave text
ClientFailure(resp) == anthropicGenerateText(resp).err
Is401(resp) == resp.net /\ resp.status = 401
HaltedAfterCall(k) ==
  /\ pc = "failed"
  /\ Len(requests) = k
  /\ Len(responses) = k
  /\ finalMessage = <<>>
  /\ ~sink.written

\* C14: a 401 response to the first or to the retry call ends the invocation
\* with the key-rejected user-facing error; any other failure of the client
\* is the error the invocation ends with, unchanged; in both cases no further
\* call is made.
C14_ClientFailuresPropagate ==
  \A k \in 1..Len(responses) :
    \A failure \in {ClientFailure(responses[k])} :
      failure # NoError =>
        /\ HaltedAfterCall(k)
        /\ Is401(responses[k]) => error = KeyRejectedError
        /\ ~Is401(responses[k]) => error = failure

C14_Witness ==
  /\ Len(responses) = 2
  /\ Is401(responses[2])
  /\ error = KeyRejectedError
  /\ pc = "failed"

----------------------------------------------------------------------------
(* Properties of the reporting of failures (under Spec) *)

\* the messages of the failures of an expected kind: workspace root,
\* configuration, no changes, credentials, no text from the provider, final
\* validation failure
ExpectedFailureTexts ==
  { "Open a folder/workspace first (Commit Gen needs a workspace root to find .commit-gen.json).",
    "Missing repo config file: ${configPath}",
    "Invalid JSON in ${configPath}: ${err}",
    "Config must be a JSON object: ${configPath}",
    "Config must include scopes: string[] (${configPath}).",
    "If present, types must be string[] (${configPath}).",
    "If present, rules must be an object (${configPath}).",
    "If present, promptHints must be a string (${configPath}).",
    ".commit-gen.json must include at least 1 scope in scopes (${configPath}).",
    "No changes found to generate a commit message for.",
    "Missing Anthropic API key. Set commitGen.anthropicApiKey or env var ANTHROPIC_API_KEY.",
    "Anthropic API key was rejected (401). Check commitGen.anthropicApiKey or ANTHROPIC_API_KEY.",
    "Anthropic API returned empty content.",
    "Generated message failed validation after retry: ${reason}" }
ShownAsItself ==
  /\ progress.text = "Failed: ${msg}"
  /\ progress.msg.text = error.text
  /\ progress.msg.reason = error.reason
  /\ progress.msg.text # GenericMessage.text
ShownAsGeneric == progress.msg.text = GenericMessage.text
Logged == outputChannel # <<>>

\* C15: a failure of an expected kind is shown to the user as its own
\* message and is not written to the diagnostics log; only failures of other
\* kinds are logged and shown as the generic message.
C15_ExpectedFailuresShownNotLogged ==
  pc = "failed" =>
    /\ error.text \in ExpectedFailureTexts => (ShownAsItself /\ ~Logged)
    /\ (Logged \/ ShownAsGeneric) => error.text \notin ExpectedFailureTexts

----------------------------------------------------------------------------
(* Properties of the text-generation clients (under SpecClient) *)

Is2xx(resp) == resp.status >= 200 /\ resp.status <= 299
ErrorClassOf(provider) == IF provider = "anthropic" THEN "AnthropicError" ELSE "OpenAIError"
EmptyResponseText(provider) ==
  IF provider = "anthropic" THEN "Anthropic API returned empty content."
  ELSE "OpenAI API returned empty content."

\* the texts of the segments of one kind in a list, in order
RECURSIVE Concatenation(_)
Concatenation(texts) ==
  IF texts = <<>> THEN <<>> ELSE Head(texts) \o Concatenation(Tail(texts))
SegmentsOf(blocks, kind) ==
  LET kept == SelectSeq(blocks, LAMBDA b : b.type = kind)
  IN Concatenation([i \in 1..Len(kept) |-> kept[i].text])

\* the text-bearing segments of a body, concatenated; empty when the body
\* has no list of them
SegmentsText(provider, resp) ==
  IF provider = "anthropic"
  THEN IF resp.content THEN SegmentsOf(resp.blocks, "text") ELSE <<>>
  ELSE IF resp.hasOutputText /\ Trim(resp.outputText) # <<>>
  THEN resp.outputText
  ELSE IF resp.hasOutput
  THEN Concatenation([i \in 1..Len(resp.output) |-> SegmentsOf(resp.output[i].content, "output_text")])
  ELSE <<>>

ClientAnswered == pc = "client" /\ fnOut.step = 1 /\ fnIn.resp.net

\* C16: for both providers, a response with a status outside 200..299 gives
\* the provider's typed failure with the status code and the raw body and no
\* text from the body; a 2xx JSON response gives the concatenation of its
\* text-bearing segments (surrounding whitespace removed); a 2xx JSON
\* response without text, a body without content list included, gives the
\* typed empty-response failure.
C16_ClientOutcomes ==
  ClientAnswered =>
    LET resp == fnIn.resp
        r == fnOut.result
        text == Trim(SegmentsText(fnIn.provider, resp))
    IN /\ ~Is2xx(resp) =>
            /\ r.err.class = ErrorClassOf(fnIn.provider)
            /\ r.err.statusCode = resp.status
            /\ r.err.responseBody = Body(resp)
            /\ r.text = <<>>
       /\ (Is2xx(resp) /\ resp.json /\ text # <<>>) =>
            /\ r.err = NoError
            /\ r.text = text
       /\ (Is2xx(resp) /\ resp.json /\ text = <<>>) =>
            /\ r.err.class = ErrorClassOf(fnIn.provider)
            /\ r.err.text = EmptyResponseText(fnIn.provider)
            /\ r.text = <<>>

----------------------------------------------------------------------------
(* Properties of configuration loading (under Spec) *)

Resolved == config # NoConfig

\* C17: every rule set that loadCommitGenConfig resolves has at least one
\* allowed type, at least one allowed scope and 20 <= maxSubjectLength <= 120;
\* an invocation that ends without a resolved rule set ends with a
\* user-facing error.
C17_ResolvedRuleSetIsWellFormed ==
  /\ Resolved =>
       /\ Len(config.types) > 0
       /\ Len(config.scopes) > 0
       /\ config.rules.maxSubjectLength >= MIN_SUBJECT
       /\ config.rules.maxSubjectLength <= MAX_SUBJECT
  /\ (pc = "failed" /\ ~Resolved) => IsUserFacing(error)

----------------------------------------------------------------------------
(* Frame of the repair (under SpecFn) *)

Rewritten == pc = "fn" /\ fnOut.step >= 2 /\ fnOut.repaired # fnIn.message

IsPrefixOf(p, s) == Len(p) <= Len(s) /\ SubSeq(s, 1, Len(p)) = p

\* C18: when the repair rewrites a message, the header of the result has the
\* type, the scope (or none) and the breaking marker of the header of the
\* input, its subject is a prefix of the subject of the input with every
\* whitespace run collapsed to one space, and below the header stands the
\* body of the input without its trailing whitespace.
C18_RepairKeepsHeaderFieldsAndBody ==
  Rewritten =>
    \A before \in {parseCommitHeader(FirstLine(fnIn.message))} :
    \A after \in {parseCommitHeader(FirstLine(fnOut.repaired))} :
      /\ before.ok
      /\ after.ok
      /\ after.type = before.type
      /\ after.hasScope = before.hasScope
      /\ after.scope = before.scope
      /\ after.breaking = before.breaking
      /\ IsPrefixOf(after.subject, CollapseWs(before.subject))
      /\ RestLines(fnOut.repaired) = TrimEnd(RestLines(fnIn.message))

C18_Witness ==
  /\ Rewritten
  /\ \E before \in {parseCommitHeader(FirstLine(fnIn.message))} :
       /\ before.hasScope
       /\ before.breaking
       /\ CollapseWs(before.subject) # before.subject
  /\ RestLines(fnOut.repaired) # <<>>
  /\ RestLines(fnOut.repaired) # RestLines(fnIn.message)

----------------------------------------------------------------------------
(* Budget of the diff (under SpecDiff) *)

ContextDiffBuilt == pc = "diff" /\ fnOut.step = 2
OriginalDiff == IF fnOut.git.diffKind = "staged" THEN fnIn.stagedDiff ELSE fnIn.workingDiff

\* C19: the budget maxDiffChars lies in 1000..200000, the diff of the
\* generation context is no longer than the budget, and it is the original
\* diff whenever that is no longer than the budget.
C19_ContextDiffWithinBudget ==
  ContextDiffBuilt =>
    \A maxDiffChars \in {fnOut.settings.maxDiffChars} :
      /\ maxDiffChars >= MIN_DIFF
      /\ maxDiffChars <= MAX_DIFF
      /\ Len(fnOut.git.diff) <= maxDiffChars
      /\ Len(OriginalDiff) <= maxDiffChars => fnOut.git.diff = OriginalDiff

C19_Witness ==
  /\ ContextDiffBuilt
  /\ Len(OriginalDiff) > fnOut.settings.maxDiffChars
  /\ fnOut.git.diff # OriginalDiff
  /\ fnOut.git.diffKind = "working"

----------------------------------------------------------------------------
(* Interleaved invocations (under SpecTwo) *)

\* C20: at every point of every interleaving, the locals of each invocation
\* (rule set, generation context, prompts, candidates, outcome) are those
\* that it has after the same number of steps when it runs alone on the
\* same answers of its collaborators.
C20_InterleavedRunsAsAlone ==
  pc = "two" =>
    \A i \in Invocations :
      fnOut.locals[i] = fnIn.alone[i][fnOut.locals[i].steps + 1]

C20_Witness ==
  /\ pc = "two"
  /\ fnOut.overlapped
  /\ fnOut.locals[1].pc = "failed"
  /\ fnOut.locals[1].candidates = <<>>
  /\ fnOut.shared.outputChannel # <<>>
  /\ fnOut.locals[2].pc = "done"
  /\ Len(fnOut.locals[2].candidates) = 2
  /\ fnOut.shared.inputBox = <<>>

====
